---- MODULE Spec2Model ----
(***************************************************************************)
(* Cute-Logger: the commit log engine (Store, Index, Segment, Log).        *)
(* Files are byte sequences; the index mapping, the store file and the     *)
(* protobuf record encoding are modelled byte for byte.                    *)
(***************************************************************************)
EXTENDS Integers, Naturals, Sequences, FiniteSets, TLC

VARIABLES
    config,         \* segment Options: MaxStoreBytes, MaxIndexBytes
    disk,           \* the log directory: file name -> bytes
    dirExists,      \* the log directory exists
    heap,           \* Segment objects of the current Log: id -> Segment
    segmentList,    \* Log.segmentList: sequence of segment ids
    activeSegment,  \* Log.activeSegment: a segment id (0 = nil)
    ret,            \* outcome of the last operation
    hist,           \* successful appends so far: <<[off, value]>>
    calls,          \* number of Log.Append calls made
    admin,          \* number of Truncate, Close, Delete, Reset and NewLog calls made
    panicked,       \* a nil dereference ended the process
    mutex,          \* Log.mutex: [writer: thread or 0, readers: set of threads]
    thr             \* the calling goroutines: thread -> its call in progress

vars == <<config, disk, dirExists, heap, segmentList, activeSegment, ret, hist, calls, admin, panicked, mutex, thr>>

----------------------------------------------------------------------------
(* Bounds of the model *)

MaxAppendCalls == 4
MaxReadOffset == 4
MaxTruncate == 3
MaxAdminCalls == 2
MaxConcAppends == 3

\* the goroutines that call the Log concurrently
Threads == {1, 2}

\* the goroutine that calls Truncate, Close, Delete and Reset while the
\* others append and read
Admins == {1}
Workers == Threads \ Admins

\* an unlocked sync.RWMutex
Unlocked == [writer |-> 0, readers |-> {}]

\* a goroutine that is in no call
Idle == [pc |-> "idle", op |-> "none", arg |-> 0, seg |-> 0, cur |-> 0, pos |-> 0, began |-> 0]

\* record payloads offered to Append
Values == {<< >>, <<1, 2>>}

\* segment capacities the log is run with: an index of exactly three
\* entries, an index cap that is no multiple of the entry length, and a
\* store cap that is reached before the index cap.
Configs ==
    { [MaxStoreBytes |-> 1000, MaxIndexBytes |-> 36],
      [MaxStoreBytes |-> 1000, MaxIndexBytes |-> 30],
      [MaxStoreBytes |-> 20,   MaxIndexBytes |-> 60] }

----------------------------------------------------------------------------
(* Integer widths and byte encodings *)

\* uint64 arithmetic wraps; the width is scaled to what the checker's
\* integers can hold.
Uint64Mod == 2^30
MaxUint64 == Uint64Mod - 1
Uint32Mod == 2^16

\* index.go: offset = 4, wordLength = 8, entryLength = 12
offset == 4
wordLength == 8
entryLength == offset + wordLength

Zeros(n) == [i \in 1..n |-> 0]

SubBytes(b, from, to) == [i \in 1..(to - from) |-> b[from + i]]

\* binary.BigEndian.PutUint32
PutUint32(n) ==
    << (n \div 16777216) % 256, (n \div 65536) % 256, (n \div 256) % 256, n % 256 >>

\* binary.BigEndian.PutUint64 (values below 2^31)
PutUint64(n) == <<0, 0, 0, 0>> \o PutUint32(n)

\* a decoded value too large for any file of the model
TooBig == 2^26

\* binary.BigEndian.Uint32
Uint32(b) ==
    IF b[1] # 0 THEN TooBig
    ELSE b[2] * 65536 + b[3] * 256 + b[4]

\* a length of 2^48 bytes or more, which make([]byte, n) refuses with a
\* run-time panic
PastMaxAlloc(b) == b[1] # 0 \/ b[2] # 0

\* binary.BigEndian.Uint64
Uint64(b) ==
    IF \E i \in 1..4 : b[i] # 0 THEN TooBig
    ELSE Uint32(SubBytes(b, 4, 8))

----------------------------------------------------------------------------
(* api.Record and its protobuf wire format:                                *)
(*   bytes value = 1 (tag 10), uint64 offset = 2 (tag 16);                 *)
(* proto3 omits a field that holds its zero value.                         *)

Varint(n) == IF n < 128 THEN <<n>> ELSE <<128 + (n % 128), n \div 128>>

Marshal(rec) ==
    (IF Len(rec.Value) > 0
        THEN <<10>> \o Varint(Len(rec.Value)) \o rec.Value ELSE << >>)
    \o (IF rec.Offset # 0 THEN <<16>> \o Varint(rec.Offset) ELSE << >>)

\* reads one varint at b[i]; [ok, val, next]
ReadVarint(b, i) ==
    IF i > Len(b) THEN [ok |-> FALSE, val |-> 0, next |-> i]
    ELSE IF b[i] < 128 THEN [ok |-> TRUE, val |-> b[i], next |-> i + 1]
    ELSE IF i + 1 > Len(b) \/ b[i + 1] >= 128
        THEN [ok |-> FALSE, val |-> 0, next |-> i]
    ELSE [ok |-> TRUE, val |-> (b[i] - 128) + 128 * b[i + 1], next |-> i + 2]

RECURSIVE UnmarshalFrom(_, _, _)
UnmarshalFrom(b, i, rec) ==
    IF i > Len(b) THEN [err |-> "nil", rec |-> rec]
    ELSE
      LET tag == ReadVarint(b, i) IN
      IF ~tag.ok THEN [err |-> "proto", rec |-> rec]
      ELSE
        LET num == tag.val \div 8
            wt  == tag.val % 8
        IN
        IF num = 0 THEN [err |-> "proto", rec |-> rec]
        ELSE IF wt = 0 THEN
            LET v == ReadVarint(b, tag.next) IN
            IF ~v.ok THEN [err |-> "proto", rec |-> rec]
            ELSE UnmarshalFrom(b, v.next,
                    IF num = 2 THEN [rec EXCEPT !.Offset = v.val] ELSE rec)
        ELSE IF wt = 2 THEN
            LET n == ReadVarint(b, tag.next) IN
            IF ~n.ok \/ n.next + n.val - 1 > Len(b)
                THEN [err |-> "proto", rec |-> rec]
            ELSE UnmarshalFrom(b, n.next + n.val,
                    IF num = 1
                        THEN [rec EXCEPT !.Value = SubBytes(b, n.next - 1, n.next - 1 + n.val)]
                        ELSE rec)
        ELSE IF wt = 1 THEN
            IF tag.next + 7 > Len(b) THEN [err |-> "proto", rec |-> rec]
            ELSE UnmarshalFrom(b, tag.next + 8, rec)
        ELSE IF wt = 5 THEN
            IF tag.next + 3 > Len(b) THEN [err |-> "proto", rec |-> rec]
            ELSE UnmarshalFrom(b, tag.next + 4, rec)
        ELSE [err |-> "proto", rec |-> rec]

Unmarshal(b) == UnmarshalFrom(b, 1, [Value |-> << >>, Offset |-> 0])

----------------------------------------------------------------------------
(* Files *)

StoreName(base) == <<base, "store">>
IndexName(base) == <<base, "index">>

\* os.Truncate / File.Truncate: cut, or pad with zero bytes
Resize(file, n) ==
    [i \in 1..n |-> IF i <= Len(file) THEN file[i] ELSE 0]

\* os.OpenFile(..., O_CREATE): the file as it is, or a new empty file
OpenCreate(d, name) ==
    IF name \in DOMAIN d THEN d ELSE d @@ (name :> << >>)

\* the bytes of a file; a name that is gone is only ever reached through a
\* closed handle, whose operations fail before they use the bytes
FileOf(d, name) == IF name \in DOMAIN d THEN d[name] ELSE << >>

WriteFile(d, name, bytes) ==
    IF name \in DOMAIN d THEN [d EXCEPT ![name] = bytes] ELSE d

RemoveFile(d, name) == [n \in (DOMAIN d) \ {name} |-> d[n]]

----------------------------------------------------------------------------
(* Index *)

\* The element of a singleton set.  The handlers below bind each step's
\* result as `x \in {step}`, so that a step is evaluated once and its
\* result is a value when the next step uses it.
Only(S) == CHOOSE x \in S : TRUE

\* NewIndex over an open file: Size is the file length, the file is then
\* truncated to MaxIndexBytes and mapped MAP_SHARED|MAP_ANONYMOUS, which
\* gives zero-filled memory of the file's length that no file backs.
\* `open` is the state of the file descriptor, `mapped` that of the mapping.
NewIndex(file, maxIndexBytes) ==
    Only({ IF Len(resized) = 0
             THEN [err |-> "EINVAL", file |-> resized,
                   index |-> [Size |-> Len(file), MemoryMap |-> << >>,
                              open |-> TRUE, mapped |-> FALSE]]
             ELSE [err |-> "nil", file |-> resized,
                   index |-> [Size |-> Len(file),
                              MemoryMap |-> Zeros(Len(resized)),
                              open |-> TRUE, mapped |-> TRUE]]
           : resized \in {Resize(file, maxIndexBytes)} })

\* Index.Write refusing the entry that would exactly fill the mapping
IndexWriteBelowCapacity(ix, off, pos) ==
    IF Len(ix.MemoryMap) <= ix.Size + entryLength
        THEN [err |-> "EOF", index |-> ix]
        ELSE [err |-> "nil",
              index |-> [ix EXCEPT
                !.MemoryMap =
                    SubBytes(ix.MemoryMap, 0, ix.Size)
                        \o PutUint32(off) \o PutUint64(pos)
                        \o SubBytes(ix.MemoryMap, ix.Size + entryLength, Len(ix.MemoryMap)),
                !.Size = ix.Size + entryLength]]

\* Index.Write: io.EOF when the entry does not fit the mapping, else the
\* pair is encoded at [Size, Size+12) and Size advances
IndexWrite(ix, off, pos) ==
    IF Len(ix.MemoryMap) < ix.Size + entryLength
        THEN [err |-> "EOF", index |-> ix]
        ELSE [err |-> "nil",
              index |-> [ix EXCEPT
                !.MemoryMap =
                    SubBytes(ix.MemoryMap, 0, ix.Size)
                        \o PutUint32(off) \o PutUint64(pos)
                        \o SubBytes(ix.MemoryMap, ix.Size + entryLength, Len(ix.MemoryMap)),
                !.Size = ix.Size + entryLength]]

\* uint32(in) of an int64: the low 32 bits (the width is scaled as that of
\* uint64 is)
ToUint32(in) == in % Uint32Mod

IndexRead(ix, in) ==
    IF ix.Size = 0 THEN [err |-> "EOF", out |-> 0, pos |-> 0]
    ELSE
      LET out == IF in = -1 THEN (ix.Size \div entryLength) - 1 ELSE ToUint32(in)
          pos == out * entryLength
      IN
      IF ix.Size < pos + entryLength THEN [err |-> "EOF", out |-> 0, pos |-> 0]
      ELSE IF Len(ix.MemoryMap) < pos + entryLength
          THEN [err |-> "panic", out |-> 0, pos |-> 0]
      ELSE [err |-> "nil",
            out |-> Uint32(SubBytes(ix.MemoryMap, pos, pos + offset)),
            pos |-> Uint64(SubBytes(ix.MemoryMap, pos + offset, pos + entryLength))]

\* Index.Close: sync the mapping, sync the file, truncate it to Size, close
\* the file; the mapping is not unmapped
IndexClose(ix, file) ==
    IF ~ix.open THEN [err |-> "closed", index |-> ix, file |-> file]
    ELSE [err |-> "nil",
          index |-> [ix EXCEPT !.open = FALSE],
          file |-> Resize(file, ix.Size)]

----------------------------------------------------------------------------
(* Store *)

\* NewStore over an open file: the buffered writer is created and the
\* logical size starts at 0 whatever the file holds.
NewStore(file) == [size |-> 0, buf |-> TRUE, open |-> TRUE, werr |-> "nil"]

\* Store.Append that leaves the entry in the buffered writer
StoreAppendUnflushed(st, file, entry) ==
    IF ~st.buf
        THEN [err |-> "panic", store |-> st, file |-> file, n |-> 0, pos |-> 0]
    ELSE IF st.werr # "nil"
        THEN [err |-> st.werr, store |-> st, file |-> file, n |-> 0, pos |-> 0]
    ELSE [err |-> "nil",
          store |-> [st EXCEPT !.size = st.size + Len(entry) + wordLength],
          file |-> file,
          n |-> Len(entry) + wordLength,
          pos |-> st.size]

\* Store.Append that counts the payload without its length prefix
StoreAppendCountsPayload(st, file, entry) ==
    IF ~st.buf
        THEN [err |-> "panic", store |-> st, file |-> file, n |-> 0, pos |-> 0]
    ELSE IF st.werr # "nil"
        THEN [err |-> st.werr, store |-> st, file |-> file, n |-> 0, pos |-> 0]
    ELSE [err |-> "nil",
          store |-> [st EXCEPT !.size = st.size + Len(entry)],
          file |-> file \o PutUint64(Len(entry)) \o entry,
          n |-> Len(entry),
          pos |-> st.size]

\* Store.Append that writes the payload without its length prefix
StoreAppendNoPrefix(st, file, entry) ==
    IF ~st.buf
        THEN [err |-> "panic", store |-> st, file |-> file, n |-> 0, pos |-> 0]
    ELSE IF st.werr # "nil"
        THEN [err |-> st.werr, store |-> st, file |-> file, n |-> 0, pos |-> 0]
    ELSE [err |-> "nil",
          store |-> [st EXCEPT !.size = st.size + Len(entry) + wordLength],
          file |-> file \o entry,
          n |-> Len(entry) + wordLength,
          pos |-> st.size]

\* Store.Append: length prefix, payload, flush.  The writes land at the
\* end of the file.  A nil buffered writer (after Close) is dereferenced;
\* a buffered writer that has met a write error returns that error from
\* the first write on, before size is touched.
StoreAppend(st, file, entry) ==
    IF ~st.buf
        THEN [err |-> "panic", store |-> st, file |-> file, n |-> 0, pos |-> 0]
    ELSE IF st.werr # "nil"
        THEN [err |-> st.werr, store |-> st, file |-> file, n |-> 0, pos |-> 0]
    ELSE [err |-> "nil",
          store |-> [st EXCEPT !.size = st.size + Len(entry) + wordLength],
          file |-> file \o PutUint64(Len(entry)) \o entry,
          n |-> Len(entry) + wordLength,
          pos |-> st.size]

\* Store.Append when the file refuses the write of the flush after taking
\* `written` bytes (a full disk): the prefix and the payload went into the
\* buffer, size was advanced, and Flush returns the error, which the
\* buffered writer keeps.
StoreAppendFailing(st, file, entry, written) ==
    IF ~st.buf
        THEN [err |-> "panic", store |-> st, file |-> file, n |-> 0, pos |-> 0]
    ELSE IF st.werr # "nil"
        THEN [err |-> st.werr, store |-> st, file |-> file, n |-> 0, pos |-> 0]
    ELSE [err |-> "ENOSPC",
          store |-> [st EXCEPT !.size = st.size + Len(entry) + wordLength,
                               !.werr = "ENOSPC"],
          file |-> file \o SubBytes(PutUint64(Len(entry)) \o entry, 0, written),
          n |-> 0,
          pos |-> 0]

\* bytes a failing flush gets into the file before the error
PartialWrites == {0, 3}

\* Store.Read: Stat, the bounds check, the length prefix, the payload
StoreRead(st, file, pos) ==
    IF ~st.open THEN [err |-> "closed", data |-> << >>]
    ELSE IF pos >= Len(file) \/ pos + wordLength > Len(file)
        THEN [err |-> "bounds", data |-> << >>]
    ELSE IF PastMaxAlloc(SubBytes(file, pos, pos + wordLength))
        THEN [err |-> "panic", data |-> << >>]
    ELSE
      LET dataSize == Uint64(SubBytes(file, pos, pos + wordLength)) IN
      IF pos + wordLength + dataSize > Len(file)
          THEN [err |-> "EOF", data |-> << >>]
          ELSE [err |-> "nil",
                data |-> SubBytes(file, pos + wordLength, pos + wordLength + dataSize)]

\* Store.Close: Flush on the buffered writer (a nil one is dereferenced),
\* buf = nil, File.Close
StoreClose(st) ==
    IF ~st.buf THEN [err |-> "panic", store |-> st]
    ELSE IF st.werr # "nil" THEN [err |-> st.werr, store |-> st]
    ELSE [err |-> "nil", store |-> [st EXCEPT !.buf = FALSE, !.open = FALSE]]

----------------------------------------------------------------------------
(* Segment *)

NewSegment(d, base, cfg) ==
    Only({
      Only({
        Only({
          IF ni.err # "nil"
            THEN [err |-> ni.err, disk |-> d3,
                  seg |-> [baseOffset |-> base, nextOffset |-> 0,
                           store |-> NewStore(d2[StoreName(base)]),
                           index |-> ni.index]]
            ELSE [err |-> "nil", disk |-> d3,
                  seg |-> [baseOffset |-> base,
                           nextOffset |-> IF last.err # "nil" THEN base
                                          ELSE (base + last.out + 1) % Uint64Mod,
                           store |-> NewStore(d2[StoreName(base)]),
                           index |-> ni.index]]
          : d3 \in {[d2 EXCEPT ![IndexName(base)] = ni.file]},
            last \in {IndexRead(ni.index, -1)} })
        : ni \in {NewIndex(d2[IndexName(base)], cfg.MaxIndexBytes)} })
      : d2 \in {OpenCreate(OpenCreate(d, StoreName(base)), IndexName(base))} })

\* Segment.Append that stores the record with the Offset its caller gave
SegmentAppendKeepOffset(s, d, record) ==
    Only({
      IF sa.err # "nil" THEN [err |-> sa.err, off |-> 0, seg |-> s, disk |-> d]
      ELSE
        Only({
          IF iw.err # "nil"
            THEN [err |-> iw.err, off |-> 0,
                  seg |-> [s EXCEPT !.store = sa.store],
                  disk |-> WriteFile(d, StoreName(s.baseOffset), sa.file)]
            ELSE [err |-> "nil", off |-> s.nextOffset,
                  seg |-> [s EXCEPT !.store = sa.store,
                                    !.index = iw.index,
                                    !.nextOffset = (s.nextOffset + 1) % Uint64Mod],
                  disk |-> WriteFile(d, StoreName(s.baseOffset), sa.file)]
          : iw \in {IndexWrite(s.index, s.nextOffset - s.baseOffset, sa.pos)} })
      : sa \in {StoreAppend(s.store, FileOf(d, StoreName(s.baseOffset)),
                            Marshal(record))} })

\* Segment.Append that advances nextOffset before it writes the index
SegmentAppendAdvanceFirst(s, d, record) ==
    Only({
      IF sa.err # "nil" THEN [err |-> sa.err, off |-> 0, seg |-> s, disk |-> d]
      ELSE
        Only({
          IF iw.err # "nil"
            THEN [err |-> iw.err, off |-> 0,
                  seg |-> [s EXCEPT !.store = sa.store,
                                    !.nextOffset = (s.nextOffset + 1) % Uint64Mod],
                  disk |-> WriteFile(d, StoreName(s.baseOffset), sa.file)]
            ELSE [err |-> "nil", off |-> s.nextOffset,
                  seg |-> [s EXCEPT !.store = sa.store,
                                    !.index = iw.index,
                                    !.nextOffset = (s.nextOffset + 1) % Uint64Mod],
                  disk |-> WriteFile(d, StoreName(s.baseOffset), sa.file)]
          : iw \in {IndexWrite(s.index, s.nextOffset - s.baseOffset, sa.pos)} })
      : sa \in {StoreAppend(s.store, FileOf(d, StoreName(s.baseOffset)),
                            Marshal([record EXCEPT !.Offset = s.nextOffset]))} })

\* Segment.Append: marshal the record with its offset, Store.Append,
\* Index.Write of the relative offset and the position, nextOffset++
SegmentAppend(s, d, record) ==
    Only({
      IF sa.err # "nil" THEN [err |-> sa.err, off |-> 0, seg |-> s, disk |-> d]
      ELSE
        Only({
          IF iw.err # "nil"
            THEN [err |-> iw.err, off |-> 0,
                  seg |-> [s EXCEPT !.store = sa.store],
                  disk |-> WriteFile(d, StoreName(s.baseOffset), sa.file)]
            ELSE [err |-> "nil", off |-> s.nextOffset,
                  seg |-> [s EXCEPT !.store = sa.store,
                                    !.index = iw.index,
                                    !.nextOffset = (s.nextOffset + 1) % Uint64Mod],
                  disk |-> WriteFile(d, StoreName(s.baseOffset), sa.file)]
          : iw \in {IndexWrite(s.index, s.nextOffset - s.baseOffset, sa.pos)} })
      : sa \in {StoreAppend(s.store, FileOf(d, StoreName(s.baseOffset)),
                            Marshal([record EXCEPT !.Offset = s.nextOffset]))} })

NoRecord == [Value |-> << >>, Offset |-> 0]

\* Segment.Read that looks the absolute offset up in the index
SegmentReadAbsolute(s, d, off) ==
    Only({
      IF ir.err # "nil" THEN [err |-> ir.err, rec |-> NoRecord]
      ELSE
        Only({
          IF sr.err # "nil" THEN [err |-> sr.err, rec |-> NoRecord]
          ELSE
            Only({
              IF um.err # "nil" THEN [err |-> um.err, rec |-> NoRecord]
              ELSE [err |-> "nil", rec |-> um.rec]
              : um \in {Unmarshal(sr.data)} })
          : sr \in {StoreRead(s.store, FileOf(d, StoreName(s.baseOffset)), ir.pos)} })
      : ir \in {IndexRead(s.index, off)} })

SegmentRead(s, d, off) ==
    Only({
      IF ir.err # "nil" THEN [err |-> ir.err, rec |-> NoRecord]
      ELSE
        Only({
          IF sr.err # "nil" THEN [err |-> sr.err, rec |-> NoRecord]
          ELSE
            Only({
              IF um.err # "nil" THEN [err |-> um.err, rec |-> NoRecord]
              ELSE [err |-> "nil", rec |-> um.rec]
              : um \in {Unmarshal(sr.data)} })
          : sr \in {StoreRead(s.store, FileOf(d, StoreName(s.baseOffset)), ir.pos)} })
      \* int64(off - s.baseOffset): the wrapped difference read as signed
      : ir \in {IndexRead(s.index, off - s.baseOffset)} })

SegmentClose(s, d) ==
    Only({
      IF ic.err # "nil" THEN [err |-> ic.err, seg |-> s, disk |-> d]
      ELSE
        Only({
          IF sc.err # "nil"
            THEN [err |-> sc.err,
                  seg |-> [s EXCEPT !.index = ic.index],
                  disk |-> WriteFile(d, IndexName(s.baseOffset), ic.file)]
            ELSE [err |-> "nil",
                  seg |-> [s EXCEPT !.index = ic.index, !.store = sc.store],
                  disk |-> WriteFile(d, IndexName(s.baseOffset), ic.file)]
          : sc \in {StoreClose(s.store)} })
      : ic \in {IndexClose(s.index, FileOf(d, IndexName(s.baseOffset)))} })

\* Segment.IsFull: either file has reached its configured maximum
IsFull(s, cfg) ==
    s.store.size >= cfg.MaxStoreBytes \/ s.index.Size >= cfg.MaxIndexBytes

BaseOffset(s) == s.baseOffset
NextOffset(s) == s.nextOffset

\* Segment.Remove: close both files and delete them from disk
SegmentRemove(s, d) ==
    Only({
      IF sc.err # "nil" THEN sc
      ELSE [err |-> "nil", seg |-> sc.seg,
            disk |-> RemoveFile(RemoveFile(sc.disk, IndexName(s.baseOffset)),
                                StoreName(s.baseOffset))]
      : sc \in {SegmentClose(s, d)} })

----------------------------------------------------------------------------
(* Log *)

\* The Log object together with its directory, threaded through the
\* helpers below: L = [heap, segmentList, activeSegment, disk, dirExists]

NewId(h) == CHOOSE i \in 1..(Cardinality(DOMAIN h) + 1) : i \notin DOMAIN h

\* Log.newSegment that leaves activeSegment as it was
newSegmentKeepActive(L, off, cfg) ==
    IF ~L.dirExists THEN [err |-> "ENOENT", L |-> L]
    ELSE
      Only({
        IF ns.err # "nil" THEN [err |-> ns.err, L |-> [L EXCEPT !.disk = ns.disk]]
        ELSE [err |-> "nil",
              L |-> [L EXCEPT !.disk = ns.disk,
                              !.heap = L.heap @@ (id :> ns.seg),
                              !.segmentList = Append(L.segmentList, id),
                              !.activeSegment =
                                  IF L.activeSegment = 0 THEN id
                                  ELSE L.activeSegment]]
        : ns \in {NewSegment(L.disk, off, cfg)}, id \in {NewId(L.heap)} })

\* Log.newSegment
newSegment(L, off, cfg) ==
    IF ~L.dirExists THEN [err |-> "ENOENT", L |-> L]
    ELSE
      Only({
        IF ns.err # "nil" THEN [err |-> ns.err, L |-> [L EXCEPT !.disk = ns.disk]]
        ELSE [err |-> "nil",
              L |-> [L EXCEPT !.disk = ns.disk,
                              !.heap = L.heap @@ (id :> ns.seg),
                              !.segmentList = Append(L.segmentList, id),
                              !.activeSegment = id]]
        : ns \in {NewSegment(L.disk, off, cfg)}, id \in {NewId(L.heap)} })

\* strconv.ParseUint(stem, 10, 0) with its error dropped, as Log.setup calls
\* it: the number a decimal stem denotes, and 0 for any other stem.  A file
\* name is <<stem, extension>>; a decimal stem is held as its number and a
\* stem that is no decimal numeral as a negative number.
ParseUint(stem) == IF stem < 0 THEN 0 ELSE stem

\* the starting offsets parsed from the file names of the directory, sorted
RECURSIVE SortedOffsets(_)
SortedOffsets(names) ==
    IF names = {} THEN << >>
    ELSE
      Only({ Only({ <<ParseUint(m[1])>> \o SortedOffsets(rest) : rest \in {names \ {m}} })
             : m \in {CHOOSE n \in names :
                        \A o \in names : ParseUint(n[1]) <= ParseUint(o[1])} })

\* the loop of Log.setup: one segment for every other starting offset
RECURSIVE setupLoop(_, _, _, _)
setupLoop(L, offs, i, cfg) ==
    IF i > Len(offs) THEN [err |-> "nil", L |-> L]
    ELSE
      Only({ IF r.err # "nil" THEN r ELSE setupLoop(r.L, offs, i + 2, cfg)
             : r \in {newSegment(L, offs[i], cfg)} })

\* Log.setup that leaves a log without segments when it found none
setupNoDefault(L, cfg) ==
    IF ~L.dirExists THEN [err |-> "ENOENT", L |-> L]
    ELSE
      Only({ setupLoop(L, offs, 1, cfg)
             : offs \in {SortedOffsets(DOMAIN L.disk)} })

\* Log.setup
setup(L, cfg) ==
    IF ~L.dirExists THEN [err |-> "ENOENT", L |-> L]
    ELSE
      Only({
        Only({ IF r.err # "nil" THEN r
               ELSE IF Len(r.L.segmentList) = 0 THEN newSegment(r.L, 0, cfg)
               ELSE r
               : r \in {setupLoop(L, offs, 1, cfg)} })
        : offs \in {SortedOffsets(DOMAIN L.disk)} })

\* NewLog
NewLog(d, exists, cfg) ==
    Only({ setup(L, cfg)
           : L \in {[heap |-> << >>, segmentList |-> << >>, activeSegment |-> 0,
                     disk |-> d, dirExists |-> exists]} })

\* Log.Append that rolls to a segment based at the offset just assigned
LogAppendRollAtOff(L, record, cfg) ==
    Only({
      Only({
        IF sa.err # "nil" THEN [err |-> sa.err, off |-> 0, L |-> L1]
        ELSE IF IsFull(sa.seg, cfg)
            THEN Only({ [err |-> r.err, off |-> sa.off, L |-> r.L]
                        : r \in {newSegment(L1, sa.off, cfg)} })
        ELSE [err |-> "nil", off |-> sa.off, L |-> L1]
        : L1 \in {[L EXCEPT !.heap[L.activeSegment] = sa.seg, !.disk = sa.disk]} })
      : sa \in {SegmentAppend(L.heap[L.activeSegment], L.disk, record)} })

\* Log.Append
LogAppend(L, record, cfg) ==
    Only({
      Only({
        IF sa.err # "nil" THEN [err |-> sa.err, off |-> 0, L |-> L1]
        ELSE IF IsFull(sa.seg, cfg)
            THEN Only({ [err |-> r.err, off |-> sa.off, L |-> r.L]
                        : r \in {newSegment(L1, (sa.off + 1) % Uint64Mod, cfg)} })
        ELSE [err |-> "nil", off |-> sa.off, L |-> L1]
        : L1 \in {[L EXCEPT !.heap[L.activeSegment] = sa.seg, !.disk = sa.disk]} })
      : sa \in {SegmentAppend(L.heap[L.activeSegment], L.disk, record)} })

\* Log.Append when the flush of the store's buffered writer fails after
\* `written` bytes: Segment.Append returns Store.Append's error before it
\* touches the index or nextOffset, and Log.Append returns it
LogAppendFailing(L, record, written) ==
    Only({
      Only({ [err |-> sa.err, off |-> 0,
              L |-> IF sa.err = "panic" THEN L
                    ELSE [L EXCEPT
                           !.heap[L.activeSegment].store = sa.store,
                           !.disk = WriteFile(L.disk, StoreName(s.baseOffset), sa.file)]]
             : sa \in {StoreAppendFailing(s.store, FileOf(L.disk, StoreName(s.baseOffset)),
                                          Marshal([record EXCEPT !.Offset = s.nextOffset]),
                                          written)} })
      : s \in {L.heap[L.activeSegment]} })

\* the loop of Log.Read with a window closed at nextOffset
RECURSIVE FindSegmentInclusive(_, _, _)
FindSegmentInclusive(L, i, off) ==
    IF i > Len(L.segmentList) THEN 0
    ELSE
      LET s == L.heap[L.segmentList[i]] IN
      IF BaseOffset(s) <= off /\ off <= NextOffset(s)
          THEN L.segmentList[i]
          ELSE FindSegmentInclusive(L, i + 1, off)

\* the loop of Log.Read: the first segment whose window holds the offset
RECURSIVE FindSegment(_, _, _)
FindSegment(L, i, off) ==
    IF i > Len(L.segmentList) THEN 0
    ELSE
      LET s == L.heap[L.segmentList[i]] IN
      IF BaseOffset(s) <= off /\ off < NextOffset(s)
          THEN L.segmentList[i]
          ELSE FindSegment(L, i + 1, off)

\* Log.Read
LogRead(L, off) ==
    Only({ IF s = 0 \/ NextOffset(L.heap[s]) <= off
             THEN [err |-> "range", rec |-> NoRecord]
             ELSE SegmentRead(L.heap[s], L.disk, off)
           : s \in {FindSegment(L, 1, off)} })

\* the loop of Log.Truncate without the continue after a Remove
RECURSIVE truncateLoopKeepAll(_, _, _, _)
truncateLoopKeepAll(L, i, lowest, retained) ==
    IF i > Len(L.segmentList)
        THEN [err |-> "nil", L |-> [L EXCEPT !.segmentList = retained]]
    ELSE
      LET id == L.segmentList[i]
          s == L.heap[id]
      IN
      IF NextOffset(s) <= (lowest + 1) % Uint64Mod
        THEN Only({
               Only({ IF rm.err # "nil" THEN [err |-> rm.err, L |-> L1]
                      ELSE truncateLoopKeepAll(L1, i + 1, lowest, Append(retained, id))
                      : L1 \in {[L EXCEPT !.heap[id] = rm.seg, !.disk = rm.disk]} })
               : rm \in {SegmentRemove(s, L.disk)} })
        ELSE truncateLoopKeepAll(L, i + 1, lowest, Append(retained, id))

\* the loop of Log.Truncate; a failed Remove returns at once and leaves
\* segmentList as it was
RECURSIVE truncateLoop(_, _, _, _)
truncateLoop(L, i, lowest, retained) ==
    IF i > Len(L.segmentList)
        THEN [err |-> "nil", L |-> [L EXCEPT !.segmentList = retained]]
    ELSE
      LET id == L.segmentList[i]
          s == L.heap[id]
      IN
      IF NextOffset(s) <= (lowest + 1) % Uint64Mod
        THEN Only({
               Only({ IF rm.err # "nil" THEN [err |-> rm.err, L |-> L1]
                      ELSE truncateLoop(L1, i + 1, lowest, retained)
                      : L1 \in {[L EXCEPT !.heap[id] = rm.seg, !.disk = rm.disk]} })
               : rm \in {SegmentRemove(s, L.disk)} })
        ELSE truncateLoop(L, i + 1, lowest, Append(retained, id))

\* Log.Truncate
LogTruncate(L, lowest) == truncateLoop(L, 1, lowest, << >>)

\* the loop of Log.Close
RECURSIVE closeLoop(_, _)
closeLoop(L, i) ==
    IF i > Len(L.segmentList) THEN [err |-> "nil", L |-> L]
    ELSE
      Only({
        Only({ IF sc.err # "nil" THEN [err |-> sc.err, L |-> L1]
               ELSE closeLoop(L1, i + 1)
               : L1 \in {[L EXCEPT !.heap[L.segmentList[i]] = sc.seg,
                                   !.disk = sc.disk]} })
        : sc \in {SegmentClose(L.heap[L.segmentList[i]], L.disk)} })

\* Log.Close
LogClose(L) == closeLoop(L, 1)

\* Log.Delete: close, then os.RemoveAll(Directory)
LogDelete(L) ==
    Only({ IF c.err # "nil" THEN [err |-> "failed to close segments", L |-> c.L]
           ELSE [err |-> "nil",
                 L |-> [c.L EXCEPT !.disk = << >>, !.dirExists = FALSE]]
           : c \in {LogClose(L)} })

\* Log.Reset: delete, os.MkdirAll(Directory), setup
LogReset(L, cfg) ==
    Only({ IF del.err # "nil" THEN del
           ELSE Only({ setup(L1, cfg)
                       : L1 \in {[del.L EXCEPT !.dirExists = TRUE]} })
           : del \in {LogDelete(L)} })

\* Log.Reader: the bytes of the store files of the listed segments, from
\* byte 0 of each, in list order
RECURSIVE readerLoop(_, _)
readerLoop(L, i) ==
    IF i > Len(L.segmentList) THEN << >>
    ELSE FileOf(L.disk, StoreName(L.heap[L.segmentList[i]].baseOffset))
            \o readerLoop(L, i + 1)

LogReader(L) == readerLoop(L, 1)

----------------------------------------------------------------------------
(* The state machine: one Log object over one directory *)

CurL ==
    [heap |-> heap, segmentList |-> segmentList,
     activeSegment |-> activeSegment, disk |-> disk, dirExists |-> dirExists]

\* segment objects still referenced by the Log
Live(L) ==
    {L.segmentList[i] : i \in 1..Len(L.segmentList)}
        \cup (IF L.activeSegment = 0 THEN {} ELSE {L.activeSegment})

SetL(L) ==
    /\ heap' = [id \in Live(L) |-> L.heap[id]]
    /\ segmentList' = L.segmentList
    /\ activeSegment' = L.activeSegment
    /\ disk' = L.disk
    /\ dirExists' = L.dirExists

Ret(op, arg, err, off, rec) ==
    [op |-> op, arg |-> arg, err |-> err, off |-> off, rec |-> rec]

\* NewLog over an empty directory
Init ==
    /\ config \in Configs
    /\ \E r \in {NewLog(<< >>, TRUE, config)} :
        /\ heap = r.L.heap
        /\ segmentList = r.L.segmentList
        /\ activeSegment = r.L.activeSegment
        /\ disk = r.L.disk
        /\ dirExists = r.L.dirExists
        /\ ret = Ret("NewLog", {}, r.err, 0, NoRecord)
    /\ hist = << >>
    /\ calls = 0
    /\ admin = 0
    /\ panicked = FALSE
    /\ mutex = Unlocked
    /\ thr = [t \in Threads |-> Idle]

\* Log.Append(record)
DoAppend(v) ==
    /\ ~panicked
    /\ activeSegment # 0
    /\ calls < MaxAppendCalls
    /\ calls' = calls + 1
    /\ \E r \in {LogAppend(CurL, [Value |-> v, Offset |-> 0], config)} :
        IF r.err = "panic"
        THEN /\ panicked' = TRUE
             /\ ret' = Ret("Append", v, "panic", 0, NoRecord)
             /\ UNCHANGED <<heap, segmentList, activeSegment, disk, dirExists, hist>>
        ELSE /\ SetL(r.L)
             /\ ret' = Ret("Append", v, r.err, r.off, NoRecord)
             /\ hist' = IF r.err = "nil"
                          THEN Append(hist, [off |-> r.off, value |-> v])
                          ELSE hist
             /\ UNCHANGED panicked
    /\ UNCHANGED <<mutex, thr, config, admin>>

\* Log.Read(offset)
DoRead(k) ==
    /\ ~panicked
    /\ \E r \in {LogRead(CurL, k)} :
        /\ ret' = Ret("Read", k, r.err, k, r.rec)
        /\ panicked' = (r.err = "panic")
    /\ UNCHANGED <<mutex, thr, config, heap, segmentList, activeSegment, disk, dirExists, hist, calls, admin>>

\* Log.Truncate(lowest)
DoTruncate(lowest) ==
    /\ ~panicked
    /\ admin < MaxAdminCalls
    /\ admin' = admin + 1
    /\ \E r \in {LogTruncate(CurL, lowest)} :
        /\ SetL(r.L)
        /\ ret' = Ret("Truncate", lowest, r.err, 0, NoRecord)
    /\ UNCHANGED <<mutex, thr, config, hist, calls, panicked>>

\* Log.Close()
DoClose ==
    /\ ~panicked
    /\ admin < MaxAdminCalls
    /\ admin' = admin + 1
    /\ \E r \in {LogClose(CurL)} :
        /\ SetL(r.L)
        /\ ret' = Ret("Close", 0, r.err, 0, NoRecord)
    /\ UNCHANGED <<mutex, thr, config, hist, calls, panicked>>

\* Log.Delete()
DoDelete ==
    /\ ~panicked
    /\ admin < MaxAdminCalls
    /\ admin' = admin + 1
    /\ \E r \in {LogDelete(CurL)} :
        /\ SetL(r.L)
        /\ ret' = Ret("Delete", 0, r.err, 0, NoRecord)
    /\ UNCHANGED <<mutex, thr, config, hist, calls, panicked>>

\* Log.Reset()
DoReset ==
    /\ ~panicked
    /\ admin < MaxAdminCalls
    /\ admin' = admin + 1
    /\ \E r \in {LogReset(CurL, config)} :
        /\ SetL(r.L)
        /\ ret' = Ret("Reset", 0, r.err, 0, NoRecord)
    /\ UNCHANGED <<mutex, thr, config, hist, calls, panicked>>

\* every segment of the Log object has been closed
AllClosed ==
    \A id \in DOMAIN heap : ~heap[id].index.open /\ ~heap[id].store.open

\* NewLog(dir) again, over the directory a closed Log left behind
DoReopen ==
    /\ ~panicked
    /\ AllClosed
    /\ dirExists
    /\ admin < MaxAdminCalls
    /\ admin' = admin + 1
    /\ \E r \in {NewLog(disk, dirExists, config)} :
        /\ SetL(r.L)
        /\ ret' = Ret("NewLog", DOMAIN disk, r.err, 0, NoRecord)
    /\ UNCHANGED <<mutex, thr, config, hist, calls, panicked>>

Next ==
    \/ \E v \in Values : DoAppend(v)
    \/ \E k \in 0..MaxReadOffset : DoRead(k)
    \/ \E lowest \in (0..MaxTruncate) \cup {MaxUint64} : DoTruncate(lowest)
    \/ DoClose
    \/ DoDelete
    \/ DoReset
    \/ DoReopen

Spec == Init /\ [][Next]_vars

\* one session of a Log opened over an empty directory: appends, reads
\* and truncations, no Close, Delete or Reset
NextSession ==
    \/ \E v \in Values : DoAppend(v)
    \/ \E k \in 0..MaxReadOffset : DoRead(k)
    \/ \E lowest \in (0..MaxTruncate) \cup {MaxUint64} : DoTruncate(lowest)

SpecSession == Init /\ [][NextSession]_vars

\* a Log opened over an empty directory that is only appended to and read
NextAppend ==
    \/ \E v \in Values : DoAppend(v)
    \/ \E k \in 0..MaxReadOffset : DoRead(k)

SpecAppend == Init /\ [][NextAppend]_vars

\* a Log over an empty directory that is appended to, read, closed and
\* opened again
NextReopen ==
    \/ \E v \in Values : DoAppend(v)
    \/ \E k \in 0..MaxReadOffset : DoRead(k)
    \/ DoClose
    \/ DoReopen

SpecReopen == Init /\ [][NextReopen]_vars

\* Log.Append(record) on a disk that takes only `written` bytes of the flush
DoAppendFail(v, written) ==
    /\ ~panicked
    /\ activeSegment # 0
    /\ calls < MaxAppendCalls
    /\ calls' = calls + 1
    /\ \E r \in {LogAppendFailing(CurL, [Value |-> v, Offset |-> 0], written)} :
        /\ SetL(r.L)
        /\ ret' = Ret("Append", v, r.err, r.off, NoRecord)
        /\ panicked' = (r.err = "panic")
    /\ UNCHANGED <<mutex, thr, config, hist, admin>>

\* one session of a Log over an empty directory on a disk that may refuse
\* the writes of an append: appends, reads and truncations
NextFault ==
    \/ \E v \in Values : DoAppend(v)
    \/ \E v \in Values, written \in PartialWrites : DoAppendFail(v, written)
    \/ \E k \in 0..MaxReadOffset : DoRead(k)
    \/ \E lowest \in 0..MaxTruncate : DoTruncate(lowest)

SpecFault == Init /\ [][NextFault]_vars

\* the directory of the Log is removed from outside the process: the files
\* already open stay usable through their descriptors, and creating a file
\* in the directory fails from now on
DirRemoved ==
    /\ ~panicked
    /\ dirExists
    /\ dirExists' = FALSE
    /\ UNCHANGED <<mutex, thr, config, heap, segmentList, activeSegment, disk,
                   ret, hist, calls, admin, panicked>>

\* one session of a Log over an empty directory that may be removed while
\* the Log is open: appends and reads
NextDirLost ==
    \/ \E v \in Values : DoAppend(v)
    \/ \E k \in 0..MaxReadOffset : DoRead(k)
    \/ DirRemoved

SpecDirLost == Init /\ [][NextDirLost]_vars

\* the Offset values a caller's record carries into Append
CallerOffsets == {0, 7}

\* Log.Append of a record whose Offset field the caller has set to given
DoAppendRecord(v, given) ==
    /\ ~panicked
    /\ activeSegment # 0
    /\ calls < MaxAppendCalls
    /\ calls' = calls + 1
    /\ \E r \in {LogAppend(CurL, [Value |-> v, Offset |-> given], config)} :
        /\ SetL(r.L)
        /\ ret' = Ret("Append", [Value |-> v, Offset |-> given], r.err, r.off, NoRecord)
        /\ hist' = IF r.err = "nil"
                     THEN Append(hist, [off |-> r.off, value |-> v, given |-> given])
                     ELSE hist
        /\ panicked' = (r.err = "panic")
    /\ UNCHANGED <<mutex, thr, config, admin>>

\* a Log over an empty directory that is appended to with records carrying
\* any Offset, and read
NextRecords ==
    \/ \E v \in Values, given \in CallerOffsets : DoAppendRecord(v, given)
    \/ \E k \in 0..MaxReadOffset : DoRead(k)

SpecRecords == Init /\ [][NextRecords]_vars

\* the files a directory may hold when a Log is opened over it: the store
\* and the index of the bases 0 and 3, each present or not, and a file
\* whose stem is no number
DirFiles ==
    {StoreName(0), IndexName(0), StoreName(3), IndexName(3), <<-1, "txt">>}

\* NewLog over a directory that holds any of these files, all empty
DiscoverInit ==
    /\ config \in Configs
    /\ \E names \in SUBSET DirFiles :
        \E r \in {NewLog([n \in names |-> << >>], TRUE, config)} :
        /\ heap = r.L.heap
        /\ segmentList = r.L.segmentList
        /\ activeSegment = r.L.activeSegment
        /\ disk = r.L.disk
        /\ dirExists = r.L.dirExists
        /\ ret = Ret("NewLog", names, r.err, 0, NoRecord)
    /\ hist = << >>
    /\ calls = 0
    /\ admin = 0
    /\ panicked = FALSE
    /\ mutex = Unlocked
    /\ thr = [t \in Threads |-> Idle]

\* a Log opened over such a directory, then appended to, read, closed and
\* opened again
SpecDiscover == DiscoverInit /\ [][NextReopen]_vars

----------------------------------------------------------------------------
(* The state machine of one Segment used on its own: heap[1] is the        *)
(* segment, created at a base offset of SegBases.                          *)

SegBases == {0, 10}

SegInit ==
    /\ config \in Configs
    /\ \E b \in SegBases :
        \E r \in {NewSegment(<< >>, b, config)} :
        /\ heap = (1 :> r.seg)
        /\ disk = r.disk
        /\ ret = Ret("NewSegment", b, r.err, 0, NoRecord)
    /\ segmentList = <<1>>
    /\ activeSegment = 1
    /\ dirExists = TRUE
    /\ hist = << >>
    /\ calls = 0
    /\ admin = 0
    /\ panicked = FALSE
    /\ mutex = Unlocked
    /\ thr = [t \in Threads |-> Idle]

\* Segment.Append(record)
SegAppend(v) ==
    /\ ~panicked
    /\ calls < MaxAppendCalls
    /\ calls' = calls + 1
    /\ \E r \in {SegmentAppend(heap[1], disk, [Value |-> v, Offset |-> 0])} :
        IF r.err = "panic"
        THEN /\ panicked' = TRUE
             /\ ret' = Ret("Append", v, "panic", 0, NoRecord)
             /\ UNCHANGED <<heap, disk, hist>>
        ELSE /\ heap' = [heap EXCEPT ![1] = r.seg]
             /\ disk' = r.disk
             /\ ret' = Ret("Append", v, r.err, r.off, NoRecord)
             /\ hist' = IF r.err = "nil"
                          THEN Append(hist, [off |-> r.off, value |-> v])
                          ELSE hist
             /\ UNCHANGED panicked
    /\ UNCHANGED <<mutex, thr, config, segmentList, activeSegment, dirExists, admin>>

\* Segment.Read(off)
SegRead(k) ==
    /\ ~panicked
    /\ \E r \in {SegmentRead(heap[1], disk, k)} :
        /\ ret' = Ret("Read", k, r.err, k, r.rec)
        /\ panicked' = (r.err = "panic")
    /\ UNCHANGED <<mutex, thr, config, heap, segmentList, activeSegment, disk, dirExists, hist, calls, admin>>

\* Segment.Close()
SegClose ==
    /\ ~panicked
    /\ admin < MaxAdminCalls
    /\ admin' = admin + 1
    /\ \E r \in {SegmentClose(heap[1], disk)} :
        /\ heap' = [heap EXCEPT ![1] = r.seg]
        /\ disk' = r.disk
        /\ ret' = Ret("Close", 0, r.err, 0, NoRecord)
    /\ UNCHANGED <<mutex, thr, config, segmentList, activeSegment, dirExists, hist, calls, panicked>>

\* NewSegment at the same base offset over the files a closed segment left
SegReopen ==
    /\ ~panicked
    /\ AllClosed
    /\ admin < MaxAdminCalls
    /\ admin' = admin + 1
    /\ \E r \in {NewSegment(disk, heap[1].baseOffset, config)} :
        /\ heap' = [heap EXCEPT ![1] = r.seg]
        /\ disk' = r.disk
        /\ ret' = Ret("NewSegment", heap[1].baseOffset, r.err, 0, NoRecord)
    /\ UNCHANGED <<mutex, thr, config, segmentList, activeSegment, dirExists, hist, calls, panicked>>

SegNext ==
    \/ \E v \in Values : SegAppend(v)
    \/ \E j \in (-1)..MaxReadOffset :
        /\ heap[1].baseOffset + j >= 0
        /\ SegRead(heap[1].baseOffset + j)
    \/ SegClose
    \/ SegReopen

SpecSegment == SegInit /\ [][SegNext]_vars

----------------------------------------------------------------------------
(* Goroutines calling one Log concurrently.  A call is a sequence of      *)
(* steps; the steps of different goroutines interleave wherever the      *)
(* code holds no lock that forbids it.                                    *)

\* a Lock that never waits
CanLockAlways(m) == TRUE

\* l.mutex.Lock() returns once there is no writer and no reader
CanLock(m) == m.writer = 0 /\ m.readers = {}

\* l.mutex.RLock() returns once there is no writer
CanRLock(m) == m.writer = 0

\* Segment.Append up to store.Append: the offset is read from nextOffset,
\* the record is marshalled with it and appended to the store
SegmentAppendStore(s, d, record) ==
    Only({
      IF sa.err # "nil"
        THEN [err |-> sa.err, cur |-> s.nextOffset, pos |-> 0, seg |-> s, disk |-> d]
        ELSE [err |-> "nil", cur |-> s.nextOffset, pos |-> sa.pos,
              seg |-> [s EXCEPT !.store = sa.store],
              disk |-> WriteFile(d, StoreName(s.baseOffset), sa.file)]
      : sa \in {StoreAppend(s.store, FileOf(d, StoreName(s.baseOffset)),
                            Marshal([record EXCEPT !.Offset = s.nextOffset]))} })

\* Segment.Append from index.Write on: the entry is written at the
\* relative offset nextOffset has now, nextOffset is incremented and the
\* offset read at the start is returned
SegmentAppendIndex(s, cur, pos) ==
    Only({
      IF iw.err # "nil" THEN [err |-> iw.err, off |-> 0, seg |-> s]
      ELSE [err |-> "nil", off |-> cur,
            seg |-> [s EXCEPT !.index = iw.index,
                              !.nextOffset = (s.nextOffset + 1) % Uint64Mod]]
      : iw \in {IndexWrite(s.index, (s.nextOffset - s.baseOffset) % Uint64Mod, pos)} })

\* the deferred l.mutex.Unlock()
Unlock(m) == [m EXCEPT !.writer = 0]

\* the deferred l.mutex.RUnlock() of goroutine t
RUnlock(m, t) == [m EXCEPT !.readers = @ \ {t}]

\* Log.Append(record) entered by goroutine t: l.mutex.Lock()
AppendLock(t, v) ==
    /\ ~panicked
    /\ thr[t].pc = "idle"
    /\ calls < MaxConcAppends
    /\ CanLock(mutex)
    /\ calls' = calls + 1
    /\ mutex' = [mutex EXCEPT !.writer = t]
    /\ thr' = [thr EXCEPT ![t] = [Idle EXCEPT !.pc = "store", !.op = "Append", !.arg = v]]
    /\ UNCHANGED <<config, disk, dirExists, heap, segmentList, activeSegment, ret, hist, admin, panicked>>

\* l.activeSegment.Append(record), up to store.Append
AppendStore(t) ==
    /\ ~panicked
    /\ thr[t].pc = "store"
    /\ \E r \in {SegmentAppendStore(heap[activeSegment], disk,
                                    [Value |-> thr[t].arg, Offset |-> 0])} :
        IF r.err = "panic"
        THEN /\ panicked' = TRUE
             /\ ret' = Ret("Append", thr[t].arg, "panic", 0, NoRecord)
             /\ UNCHANGED <<heap, disk, mutex, thr>>
        ELSE /\ heap' = [heap EXCEPT ![activeSegment] = r.seg]
             /\ disk' = r.disk
             /\ thr' = [thr EXCEPT ![t].pc = "index", ![t].seg = activeSegment,
                                   ![t].cur = r.cur, ![t].pos = r.pos]
             /\ UNCHANGED <<mutex, ret, panicked>>
    /\ UNCHANGED <<config, dirExists, segmentList, activeSegment, hist, calls, admin>>

\* l.activeSegment.Append(record), from index.Write on
AppendIndex(t) ==
    /\ ~panicked
    /\ thr[t].pc = "index"
    /\ \E r \in {SegmentAppendIndex(heap[thr[t].seg], thr[t].cur, thr[t].pos)} :
        /\ heap' = [heap EXCEPT ![thr[t].seg] = r.seg]
        /\ IF r.err # "nil"
           THEN /\ mutex' = Unlock(mutex)
                /\ thr' = [thr EXCEPT ![t] = Idle]
                /\ ret' = Ret("Append", thr[t].arg, r.err, 0, NoRecord)
           ELSE /\ thr' = [thr EXCEPT ![t].pc = "roll"]
                /\ UNCHANGED <<mutex, ret>>
    /\ UNCHANGED <<config, disk, dirExists, segmentList, activeSegment, hist, calls, admin, panicked>>

\* the rest of Log.Append: a full active segment is followed by a new one;
\* return, with the deferred Unlock
AppendRoll(t) ==
    /\ ~panicked
    /\ thr[t].pc = "roll"
    /\ \E r \in {IF IsFull(heap[activeSegment], config)
                   THEN newSegment(CurL, (thr[t].cur + 1) % Uint64Mod, config)
                   ELSE [err |-> "nil", L |-> CurL]} :
        /\ SetL(r.L)
        /\ ret' = Ret("Append", thr[t].arg, r.err, thr[t].cur, NoRecord)
        /\ hist' = IF r.err = "nil"
                     THEN Append(hist, [off |-> thr[t].cur, value |-> thr[t].arg, by |-> t])
                     ELSE hist
    /\ mutex' = Unlock(mutex)
    /\ thr' = [thr EXCEPT ![t] = Idle]
    /\ UNCHANGED <<config, calls, admin, panicked>>

\* Log.Read(offset) entered by goroutine t: l.mutex.RLock()
ReadLock(t, k) ==
    /\ ~panicked
    /\ thr[t].pc = "idle"
    /\ CanRLock(mutex)
    /\ mutex' = [mutex EXCEPT !.readers = @ \cup {t}]
    /\ thr' = [thr EXCEPT ![t] = [Idle EXCEPT !.pc = "read", !.op = "Read", !.arg = k,
                                              !.began = Len(hist)]]
    /\ UNCHANGED <<config, disk, dirExists, heap, segmentList, activeSegment, ret, hist, calls, admin, panicked>>

\* the body of Log.Read; return, with the deferred RUnlock
ReadRun(t) ==
    /\ ~panicked
    /\ thr[t].pc = "read"
    /\ \E r \in {LogRead(CurL, thr[t].arg)} :
        /\ ret' = Ret("Read", thr[t].arg, r.err, thr[t].arg, r.rec)
        /\ panicked' = (r.err = "panic")
    /\ mutex' = RUnlock(mutex, t)
    /\ thr' = [thr EXCEPT ![t] = Idle]
    /\ UNCHANGED <<config, disk, dirExists, heap, segmentList, activeSegment, hist, calls, admin>>

\* goroutines that only append and read
NextConcAppend ==
    \/ \E t \in Threads, v \in Values : AppendLock(t, v)
    \/ \E t \in Threads : AppendStore(t)
    \/ \E t \in Threads : AppendIndex(t)
    \/ \E t \in Threads : AppendRoll(t)
    \/ \E t \in Threads, k \in 0..MaxReadOffset : ReadLock(t, k)
    \/ \E t \in Threads : ReadRun(t)

SpecConcAppend == Init /\ [][NextConcAppend]_vars

\* Log.Close(), Log.Delete() or Log.Reset() entered by goroutine t; all
\* three begin with the l.mutex.Lock() of Log.Close
CloseLock(t, op) ==
    /\ ~panicked
    /\ thr[t].pc = "idle"
    /\ admin < MaxAdminCalls
    /\ CanLock(mutex)
    /\ admin' = admin + 1
    /\ mutex' = [mutex EXCEPT !.writer = t]
    /\ thr' = [thr EXCEPT ![t] = [Idle EXCEPT !.pc = "close", !.op = op]]
    /\ UNCHANGED <<config, disk, dirExists, heap, segmentList, activeSegment, ret, hist, calls, panicked>>

\* the loop of Log.Close and its deferred Unlock; Close returns here,
\* Delete and Reset go on without the lock
CloseRun(t) ==
    /\ ~panicked
    /\ thr[t].pc = "close"
    /\ \E r \in {LogClose(CurL)} :
        /\ SetL(r.L)
        /\ IF thr[t].op = "Close"
           THEN /\ ret' = Ret("Close", 0, r.err, 0, NoRecord)
                /\ thr' = [thr EXCEPT ![t] = Idle]
           ELSE IF r.err # "nil"
           THEN /\ ret' = Ret(thr[t].op, 0, "failed to close segments", 0, NoRecord)
                /\ thr' = [thr EXCEPT ![t] = Idle]
           ELSE /\ thr' = [thr EXCEPT ![t].pc = "removeAll"]
                /\ UNCHANGED ret
    /\ mutex' = Unlock(mutex)
    /\ UNCHANGED <<config, hist, calls, admin, panicked>>

\* Log.Delete: os.RemoveAll(l.Directory)
DeleteRemoveAll(t) ==
    /\ ~panicked
    /\ thr[t].pc = "removeAll"
    /\ disk' = << >>
    /\ dirExists' = FALSE
    /\ IF thr[t].op = "Delete"
       THEN /\ ret' = Ret("Delete", 0, "nil", 0, NoRecord)
            /\ thr' = [thr EXCEPT ![t] = Idle]
       ELSE /\ thr' = [thr EXCEPT ![t].pc = "mkdir"]
            /\ UNCHANGED ret
    /\ UNCHANGED <<config, heap, segmentList, activeSegment, hist, calls, admin, panicked, mutex>>

\* Log.Reset: os.MkdirAll(l.Directory)
ResetMkdir(t) ==
    /\ ~panicked
    /\ thr[t].pc = "mkdir"
    /\ dirExists' = TRUE
    /\ thr' = [thr EXCEPT ![t].pc = "setup"]
    /\ UNCHANGED <<config, disk, heap, segmentList, activeSegment, ret, hist, calls, admin, panicked, mutex>>

\* Log.Reset: l.setup()
ResetSetup(t) ==
    /\ ~panicked
    /\ thr[t].pc = "setup"
    /\ \E r \in {setup(CurL, config)} :
        /\ SetL(r.L)
        /\ ret' = Ret("Reset", 0, r.err, 0, NoRecord)
    /\ thr' = [thr EXCEPT ![t] = Idle]
    /\ UNCHANGED <<config, hist, calls, admin, panicked, mutex>>

\* Log.Truncate(lowest) entered by goroutine t: l.mutex.Lock()
TruncateLock(t, lowest) ==
    /\ ~panicked
    /\ thr[t].pc = "idle"
    /\ admin < MaxAdminCalls
    /\ CanLock(mutex)
    /\ admin' = admin + 1
    /\ mutex' = [mutex EXCEPT !.writer = t]
    /\ thr' = [thr EXCEPT ![t] = [Idle EXCEPT !.pc = "truncate", !.op = "Truncate",
                                              !.arg = lowest]]
    /\ UNCHANGED <<config, disk, dirExists, heap, segmentList, activeSegment, ret, hist, calls, panicked>>

\* the body of Log.Truncate; return, with the deferred Unlock
TruncateRun(t) ==
    /\ ~panicked
    /\ thr[t].pc = "truncate"
    /\ \E r \in {LogTruncate(CurL, thr[t].arg)} :
        /\ SetL(r.L)
        /\ ret' = Ret("Truncate", thr[t].arg, r.err, 0, NoRecord)
    /\ mutex' = Unlock(mutex)
    /\ thr' = [thr EXCEPT ![t] = Idle]
    /\ UNCHANGED <<config, hist, calls, admin, panicked>>

\* goroutines calling every operation of the Log: one of them truncates,
\* closes, deletes and resets while the others append and read
NextConc ==
    \/ \E t \in Workers, v \in Values : AppendLock(t, v)
    \/ \E t \in Workers : AppendStore(t)
    \/ \E t \in Workers : AppendIndex(t)
    \/ \E t \in Workers : AppendRoll(t)
    \/ \E t \in Workers, k \in 0..MaxReadOffset : ReadLock(t, k)
    \/ \E t \in Workers : ReadRun(t)
    \/ \E t \in Admins, op \in {"Close", "Delete", "Reset"} : CloseLock(t, op)
    \/ \E t \in Admins : CloseRun(t)
    \/ \E t \in Admins : DeleteRemoveAll(t)
    \/ \E t \in Admins : ResetMkdir(t)
    \/ \E t \in Admins : ResetSetup(t)
    \/ \E t \in Admins, lowest \in 0..MaxTruncate : TruncateLock(t, lowest)
    \/ \E t \in Admins : TruncateRun(t)

SpecConc == Init /\ [][NextConc]_vars

----------------------------------------------------------------------------
(* One Store over one file.  heap[1] holds the Store object and the length *)
(* the file had when the store was opened; hist holds the successful       *)
(* appends of that Store object.                                           *)

MaxStorePos == 20

\* payloads offered to Store.Append
StorePayloads == {<< >>, <<7>>, <<1, 2>>}

\* the file of the store
StoreFile == disk[StoreName(0)]

\* NewStore(WithFile(f)) over a new, empty file
StInit ==
    /\ config = [BufferSize |-> 4096]
    /\ disk = (StoreName(0) :> << >>)
    /\ heap = (1 :> [store |-> NewStore(<< >>), atOpen |-> 0])
    /\ ret = Ret("NewStore", 0, "nil", 0, NoRecord)
    /\ segmentList = << >>
    /\ activeSegment = 0
    /\ dirExists = TRUE
    /\ hist = << >>
    /\ calls = 0
    /\ admin = 0
    /\ panicked = FALSE
    /\ mutex = Unlocked
    /\ thr = [t \in Threads |-> Idle]

\* the outcome r of a Store.Append(p) call
StAppended(p, r) ==
    IF r.err = "panic"
    THEN /\ panicked' = TRUE
         /\ ret' = Ret("Append", p, "panic", 0, NoRecord)
         /\ UNCHANGED <<heap, disk, hist>>
    ELSE /\ heap' = [heap EXCEPT ![1].store = r.store]
         /\ disk' = [disk EXCEPT ![StoreName(0)] = r.file]
         /\ ret' = Ret("Append", p, r.err, r.pos, [n |-> r.n])
         /\ hist' = IF r.err = "nil"
                      THEN Append(hist, [off |-> r.pos, value |-> p, n |-> r.n])
                      ELSE hist
         /\ UNCHANGED panicked

\* Store.Append(p)
StAppend(p) ==
    /\ ~panicked
    /\ calls < MaxAppendCalls
    /\ calls' = calls + 1
    /\ \E r \in {StoreAppend(heap[1].store, StoreFile, p)} : StAppended(p, r)
    /\ UNCHANGED <<mutex, thr, config, segmentList, activeSegment, dirExists, admin>>

\* Store.Append(p) while the disk is full
StAppendFail(p, written) ==
    /\ ~panicked
    /\ calls < MaxAppendCalls
    /\ calls' = calls + 1
    /\ \E r \in {StoreAppendFailing(heap[1].store, StoreFile, p, written)} :
        StAppended(p, r)
    /\ UNCHANGED <<mutex, thr, config, segmentList, activeSegment, dirExists, admin>>

\* Store.Read(pos)
StRead(pos) ==
    /\ ~panicked
    /\ \E r \in {StoreRead(heap[1].store, StoreFile, pos)} :
        /\ ret' = Ret("Read", pos, r.err, pos, r.data)
        /\ panicked' = (r.err = "panic")
    /\ UNCHANGED <<mutex, thr, config, heap, segmentList, activeSegment, disk, dirExists, hist, calls, admin>>

\* Store.Close()
StClose ==
    /\ ~panicked
    /\ admin < MaxAdminCalls
    /\ admin' = admin + 1
    /\ \E r \in {StoreClose(heap[1].store)} :
        /\ heap' = [heap EXCEPT ![1].store = r.store]
        /\ ret' = Ret("Close", 0, r.err, 0, NoRecord)
        /\ panicked' = (r.err = "panic")
    /\ UNCHANGED <<mutex, thr, config, segmentList, activeSegment, disk, dirExists, hist, calls>>

\* NewStore(WithFile(f)) over the file a closed store left behind
StReopen ==
    /\ ~panicked
    /\ ~heap[1].store.open
    /\ admin < MaxAdminCalls
    /\ admin' = admin + 1
    /\ heap' = (1 :> [store |-> NewStore(StoreFile), atOpen |-> Len(StoreFile)])
    /\ hist' = << >>
    /\ ret' = Ret("NewStore", 0, "nil", 0, NoRecord)
    /\ UNCHANGED <<mutex, thr, config, segmentList, activeSegment, disk, dirExists, calls, panicked>>

StNext ==
    \/ \E p \in StorePayloads : StAppend(p)
    \/ \E p \in StorePayloads, written \in PartialWrites : StAppendFail(p, written)
    \/ \E pos \in 0..MaxStorePos : StRead(pos)
    \/ StClose
    \/ StReopen

SpecStore == StInit /\ [][StNext]_vars

----------------------------------------------------------------------------
(* The gRPC server streaming from a Log opened over an empty directory     *)
(* while a producer appends.  thr[t] of the goroutine that serves the      *)
(* stream holds the request's offset, the responses sent so far, the       *)
(* state of the stream's context and the value ConsumeStream returned.     *)

\* the goroutine that serves the ConsumeStream call
Consumers == {2}

\* the offsets a ConsumeStream request starts from
FromOffsets == 0..2

\* grpcServer.Consume: CommitLog.Read of the request's offset
Consume(L, off) ==
    Only({ [err |-> r.err, res |-> r.rec] : r \in {LogRead(L, off)} })

\* the top of ConsumeStream's loop: the select on the context, and in its
\* default branch the Consume of the current offset
ConsumeStreamSelect(st, L) ==
    IF st.ctxDone THEN [st EXCEPT !.pc = "done", !.err = "nil"]
    ELSE Only({ IF c.err # "nil"
                  THEN [st EXCEPT !.pc = "done", !.err = c.err]
                  ELSE [st EXCEPT !.pc = "send", !.res = c.res]
                : c \in {Consume(L, st.offset)} })

\* ConsumeStream that advances the offset before it looks at Send's error
ConsumeStreamSendAdvanceFirst(st, ok) ==
    IF ~ok THEN [st EXCEPT !.pc = "done", !.err = "send",
                           !.offset = (st.offset + 1) % Uint64Mod]
    ELSE [st EXCEPT !.pc = "select",
                    !.sent = Append(st.sent, st.res),
                    !.offset = (st.offset + 1) % Uint64Mod]

\* the rest of the loop body: stream.Send(res), which the transport lets
\* succeed (ok) or fail, then req.Offset++
ConsumeStreamSend(st, ok) ==
    IF ~ok THEN [st EXCEPT !.pc = "done", !.err = "send"]
    ELSE [st EXCEPT !.pc = "select",
                    !.sent = Append(st.sent, st.res),
                    !.offset = (st.offset + 1) % Uint64Mod]

\* a client calls ConsumeStream(from)
StreamStart(t, from) ==
    /\ ~panicked
    /\ thr[t].pc = "idle"
    /\ thr' = [thr EXCEPT ![t] =
                 [pc |-> "select", op |-> "ConsumeStream", from |-> from,
                  offset |-> from, sent |-> << >>, ctxDone |-> FALSE,
                  res |-> NoRecord, err |-> "running"]]
    /\ UNCHANGED <<mutex, config, heap, segmentList, activeSegment, disk, dirExists, ret, hist, calls, admin, panicked>>

\* the client cancels the stream's context
StreamCancel(t) ==
    /\ thr[t].pc \in {"select", "send"}
    /\ ~thr[t].ctxDone
    /\ thr' = [thr EXCEPT ![t].ctxDone = TRUE]
    /\ UNCHANGED <<mutex, config, heap, segmentList, activeSegment, disk, dirExists, ret, hist, calls, admin, panicked>>

StreamSelect(t) ==
    /\ ~panicked
    /\ thr[t].pc = "select"
    /\ \E st \in {ConsumeStreamSelect(thr[t], CurL)} :
        /\ thr' = [thr EXCEPT ![t] = st]
        /\ panicked' = (st.err = "panic")
    /\ UNCHANGED <<mutex, config, heap, segmentList, activeSegment, disk, dirExists, ret, hist, calls, admin>>

StreamSend(t, ok) ==
    /\ thr[t].pc = "send"
    /\ thr' = [thr EXCEPT ![t] = ConsumeStreamSend(thr[t], ok)]
    /\ UNCHANGED <<mutex, config, heap, segmentList, activeSegment, disk, dirExists, ret, hist, calls, admin, panicked>>

NextStream ==
    \/ \E v \in Values : DoAppend(v)
    \/ \E t \in Consumers :
        \/ \E from \in FromOffsets : StreamStart(t, from)
        \/ StreamCancel(t)
        \/ StreamSelect(t)
        \/ \E ok \in BOOLEAN : StreamSend(t, ok)

SpecStream == Init /\ [][NextStream]_vars

----------------------------------------------------------------------------
(* One Index over one file.  heap[1] holds the Index object; hist holds    *)
(* the entries written successfully.                                       *)

\* the (relative offset, position) pairs offered to Index.Write
IndexEntries == {[off |-> 0, pos |-> 0], [off |-> 1, pos |-> 18], [off |-> 7, pos |-> 5]}

\* the entry numbers offered to Index.Read: the last entry, the first
\* ones, and numbers whose low 32 bits are those of the first ones
IndexReads == (-2..MaxReadOffset) \cup {Uint32Mod, Uint32Mod + 1}

\* the file of the index
IndexFile == disk[IndexName(0)]

\* NewIndex(WithFile(f), WithMaxIndexBytes(n), WithMemoryMapping(true))
\* over a new, empty file
IxInit ==
    /\ config \in Configs
    /\ \E r \in {NewIndex(<< >>, config.MaxIndexBytes)} :
        /\ heap = (1 :> [index |-> r.index])
        /\ disk = (IndexName(0) :> r.file)
        /\ ret = Ret("NewIndex", 0, r.err, 0, NoRecord)
    /\ segmentList = << >>
    /\ activeSegment = 0
    /\ dirExists = TRUE
    /\ hist = << >>
    /\ calls = 0
    /\ admin = 0
    /\ panicked = FALSE
    /\ mutex = Unlocked
    /\ thr = [t \in Threads |-> Idle]

\* Index.Write(off, pos)
IxWrite(e) ==
    /\ ~panicked
    /\ calls < MaxAppendCalls
    /\ calls' = calls + 1
    /\ \E r \in {IndexWrite(heap[1].index, e.off, e.pos)} :
        /\ heap' = [heap EXCEPT ![1].index = r.index]
        /\ ret' = Ret("Write", e, r.err, 0, NoRecord)
        /\ hist' = IF r.err = "nil" THEN Append(hist, e) ELSE hist
    /\ UNCHANGED <<mutex, thr, config, segmentList, activeSegment, disk, dirExists, admin, panicked>>

\* Index.Read(in)
IxRead(in) ==
    /\ ~panicked
    /\ \E r \in {IndexRead(heap[1].index, in)} :
        /\ ret' = Ret("Read", in, r.err, r.out, r.pos)
        /\ panicked' = (r.err = "panic")
    /\ UNCHANGED <<mutex, thr, config, heap, segmentList, activeSegment, disk, dirExists, hist, calls, admin>>

\* Index.Close()
IxClose ==
    /\ ~panicked
    /\ admin < MaxAdminCalls
    /\ admin' = admin + 1
    /\ \E r \in {IndexClose(heap[1].index, IndexFile)} :
        /\ heap' = [heap EXCEPT ![1].index = r.index]
        /\ disk' = [disk EXCEPT ![IndexName(0)] = r.file]
        /\ ret' = Ret("Close", 0, r.err, 0, NoRecord)
    /\ UNCHANGED <<mutex, thr, config, segmentList, activeSegment, dirExists, hist, calls, panicked>>

\* NewIndex over the file a closed index left behind
IxReopen ==
    /\ ~panicked
    /\ ~heap[1].index.open
    /\ admin < MaxAdminCalls
    /\ admin' = admin + 1
    /\ \E r \in {NewIndex(IndexFile, config.MaxIndexBytes)} :
        /\ heap' = (1 :> [index |-> r.index])
        /\ disk' = [disk EXCEPT ![IndexName(0)] = r.file]
        /\ ret' = Ret("NewIndex", 0, r.err, 0, NoRecord)
    /\ UNCHANGED <<mutex, thr, config, segmentList, activeSegment, dirExists, hist, calls, panicked>>

IxNext ==
    \/ \E e \in IndexEntries : IxWrite(e)
    \/ \E in \in IndexReads : IxRead(in)
    \/ IxClose
    \/ IxReopen

SpecIndex == IxInit /\ [][IxNext]_vars

\* the MaxIndexBytes values given when an index file is opened again
ReopenCaps == {12}

\* NewIndex(WithFile(f), WithMaxIndexBytes(n), WithMemoryMapping(true)) over
\* the file a closed index left behind, with a cap of its own
IxReopenWith(n) ==
    /\ ~panicked
    /\ ~heap[1].index.open
    /\ admin < MaxAdminCalls
    /\ admin' = admin + 1
    /\ config' = [config EXCEPT !.MaxIndexBytes = n]
    /\ \E r \in {NewIndex(IndexFile, n)} :
        /\ heap' = (1 :> [index |-> r.index])
        /\ disk' = [disk EXCEPT ![IndexName(0)] = r.file]
        /\ ret' = Ret("NewIndex", 0, r.err, 0, NoRecord)
    /\ UNCHANGED <<mutex, thr, segmentList, activeSegment, dirExists, hist, calls, panicked>>

\* an Index whose file is opened again with another MaxIndexBytes
IxNextCaps ==
    \/ \E e \in IndexEntries : IxWrite(e)
    \/ \E in \in IndexReads : IxRead(in)
    \/ IxClose
    \/ \E n \in ReopenCaps : IxReopenWith(n)

SpecIndexCaps == IxInit /\ [][IxNextCaps]_vars

----------------------------------------------------------------------------
(* Properties *)

\* the ids of the segments of the list
Listed == {segmentList[i] : i \in 1..Len(segmentList)}

\* offset k lies in the window [baseOffset, nextOffset) of segment s
InWindow(s, k) == s.baseOffset <= k /\ k < s.nextOffset

\* Log.Read(k) succeeds with value v
ReadsBack(L, k, v) ==
    LET r == LogRead(L, k) IN r.err = "nil" /\ r.rec.Value = v

\* C1: the offsets returned by the successful appends of a log opened over
\* an empty directory are 0, 1, 2, ... in call order, across roll-overs.
C1_OffsetsContiguous ==
    /\ \A i \in 1..Len(hist) : hist[i].off = i - 1
    /\ (ret.op = "Append" /\ ret.err = "nil") => ret.off = Len(hist) - 1

\* the fourth successful append returned 3 after a roll-over
C1_Witness ==
    /\ ret.op = "Append" /\ ret.err = "nil" /\ ret.off = 3
    /\ Len(segmentList) >= 2

\* C2: every offset returned by a successful append reads back the value
\* appended at it, after any number of further appends and roll-overs.
C2_ReadBack ==
    /\ \A i \in 1..Len(hist) : ReadsBack(CurL, hist[i].off, hist[i].value)
    /\ \A i \in 1..Len(hist) :
        (ret.op = "Read" /\ ret.arg = hist[i].off)
            => (ret.err = "nil" /\ ret.rec.Value = hist[i].value)

\* a record of an earlier segment was read after a roll-over
C2_Witness ==
    /\ ret.op = "Read" /\ ret.err = "nil" /\ ret.rec.Value = <<1, 2>>
    /\ Len(segmentList) >= 2
    /\ ret.arg < heap[activeSegment].baseOffset
    /\ ret.arg >= 1

\* every segment of the list has its files open
ListedOpen ==
    \A id \in Listed : heap[id].store.open /\ heap[id].index.open

\* the Log can be appended to: its active segment is open
LogOpen ==
    /\ activeSegment # 0
    /\ heap[activeSegment].store.open /\ heap[activeSegment].index.open

\* C3: after appending, Close and NewLog on the same directory, Read(k)
\* returns the k-th appended record, and records appended after the reopen
\* read back at the offsets Append returned for them.
C3_RoundTrip ==
    (admin >= 2 /\ LogOpen /\ ~panicked)
        => \A i \in 1..Len(hist) : ReadsBack(CurL, hist[i].off, hist[i].value)

\* C4: a segment created at base b, given m successful appends, closed and
\* reopened at base b has nextOffset = b + m.
C4_TailLocate ==
    (ret.op = "NewSegment" /\ ret.err = "nil")
        => heap[1].nextOffset = heap[1].baseOffset + Len(hist)

\* C5: a Log.Append that leaves the active segment full makes the log
\* create a segment based at the previous active segment's nextOffset, that
\* segment becomes the active one and the tail of the list, and every
\* record appended so far stays readable; with an index of exactly three
\* entries the fourth append returns 3 from a segment whose base is 3.
C5_RollOver ==
    [][ (ret'.op = "Append" /\ calls' = calls + 1 /\ ret'.err = "nil")
        => /\ IsFull(heap'[activeSegment], config)
                => /\ activeSegment' # activeSegment
                   /\ segmentList' = Append(segmentList, activeSegment')
                   /\ heap'[activeSegment'].baseOffset = heap'[activeSegment].nextOffset
                   /\ heap'[activeSegment'].nextOffset = heap'[activeSegment'].baseOffset
                   /\ \A i \in 1..Len(hist') :
                        ReadsBack(CurL', hist'[i].off, hist'[i].value)
           /\ ~IsFull(heap'[activeSegment], config)
                => (activeSegment' = activeSegment /\ segmentList' = segmentList)
           /\ (config.MaxIndexBytes = 3 * entryLength /\ Len(hist') = 4)
                => /\ \A i \in 1..4 : hist'[i].off = i - 1
                   /\ InWindow(heap'[activeSegment'], 3)
                   /\ heap'[activeSegment'].baseOffset = 3
      ]_vars

\* the fourth append of a log whose index holds three entries returned 3
\* and the active segment is a second segment based at 3
C5_Witness ==
    /\ ret.op = "Append" /\ ret.err = "nil" /\ ret.off = 3
    /\ config.MaxIndexBytes = 3 * entryLength
    /\ Len(segmentList) = 2
    /\ heap[activeSegment].baseOffset = 3
    /\ heap[segmentList[1]].nextOffset = 3

\* C6: in every state of an open Log the segment list is strictly ordered
\* by baseOffset, consecutive windows are contiguous, and the active segment
\* is the last element of the list.
C6_SegmentsContiguous ==
    ListedOpen
        => /\ \A i \in 1..(Len(segmentList) - 1) :
                /\ heap[segmentList[i]].baseOffset < heap[segmentList[i + 1]].baseOffset
                /\ heap[segmentList[i]].nextOffset = heap[segmentList[i + 1]].baseOffset
           /\ Len(segmentList) >= 1
           /\ activeSegment = segmentList[Len(segmentList)]

\* C7: Log.Read(k) fails with the out-of-range error and returns no record
\* for every offset k that lies in no segment's window, and an offset equal
\* to a rolled segment's nextOffset is served by the following segment,
\* never by the rolled one.
C7_ReadOutOfRange ==
    /\ \A k \in 0..(MaxReadOffset + 1) :
        (\A id \in Listed : ~InWindow(heap[id], k))
            => LogRead(CurL, k) = [err |-> "range", rec |-> NoRecord]
    /\ (ret.op = "Read" /\ \A id \in Listed : ~InWindow(heap[id], ret.arg))
            => (ret.err = "range" /\ ret.rec = NoRecord)
    /\ \A i \in 1..(Len(segmentList) - 1) :
        LET k == heap[segmentList[i]].nextOffset IN
        InWindow(heap[segmentList[i + 1]], k)
            => /\ FindSegment(CurL, 1, k) = segmentList[i + 1]
               /\ LogRead(CurL, k) = SegmentRead(heap[segmentList[i + 1]], disk, k)

\* Read(n) after n appends over two segments failed with out of range
C7_Witness ==
    /\ ret.op = "Read" /\ ret.err = "range" /\ ret.rec = NoRecord
    /\ Len(hist) >= 3 /\ ret.arg = Len(hist)
    /\ Len(segmentList) >= 2
    /\ ListedOpen
    /\ InWindow(heap[activeSegment], heap[segmentList[1]].nextOffset)

\* C8: after Truncate(lowest) returns nil, for every lowest of the unsigned
\* 64-bit range, no retained segment has nextOffset <= lowest + 1.
C8_TruncateRemoves ==
    (ret.op = "Truncate" /\ ret.err = "nil")
        => \A id \in Listed : ~(heap[id].nextOffset <= ret.arg + 1)

\* C9: a successful Log.Truncate makes Read fail with out of range for
\* every offset of a removed segment, deletes the store and index files of
\* every removed segment, and leaves every record of a retained segment
\* readable with the value that was appended.
C9_TruncateFrame ==
    [][ (ret'.op = "Truncate" /\ admin' = admin + 1 /\ ret'.err = "nil")
        => /\ \A id \in Listed \ Listed' :
                /\ \A k \in 0..MaxReadOffset :
                    InWindow(heap[id], k) => LogRead(CurL', k).err = "range"
                /\ StoreName(heap[id].baseOffset) \notin DOMAIN disk'
                /\ IndexName(heap[id].baseOffset) \notin DOMAIN disk'
           /\ \A i \in 1..Len(hist) :
                (\E id \in Listed' : InWindow(heap'[id], hist[i].off))
                    => ReadsBack(CurL', hist[i].off, hist[i].value)
           /\ \A id \in Listed' : heap'[id] = heap[id]
      ]_vars

\* a truncation removed the first segment and kept a later one: the last
\* offset of the removed segment fails, the first retained offset reads
C9_Witness ==
    /\ ret.op = "Truncate" /\ ret.err = "nil"
    /\ Len(segmentList) >= 1
    /\ heap[segmentList[1]].baseOffset >= 2
    /\ heap[segmentList[1]].baseOffset = ret.arg + 1
    /\ LogRead(CurL, ret.arg).err = "range"
    /\ LogRead(CurL, ret.arg + 1).err = "nil"
    /\ StoreName(0) \notin DOMAIN disk

\* C10: after Reset returns nil the log is as a freshly opened log on an
\* empty directory: one segment, base 0, nextOffset 0, active; Read(0)
\* fails with out of range and the next Append returns offset 0.
C10_ResetFresh ==
    (ret.op = "Reset" /\ ret.err = "nil")
        => /\ Len(segmentList) = 1
           /\ activeSegment = segmentList[1]
           /\ heap[activeSegment].baseOffset = 0
           /\ heap[activeSegment].nextOffset = 0
           /\ LogRead(CurL, 0).err = "range"
           /\ LET a == LogAppend(CurL, [Value |-> <<1, 2>>, Offset |-> 0], config) IN
                a.err = "nil" /\ a.off = 0

\* goroutine u is inside a mutating operation of the Log
Mutating(u) ==
    /\ thr[u].pc # "idle"
    /\ thr[u].op \in {"Append", "Truncate", "Close", "Delete", "Reset"}

\* C11: every mutating operation (Append, Truncate, Close, Delete, Reset)
\* runs entirely under the exclusive lock: while a goroutine is between the
\* first and the last step of one, no other goroutine is inside an Append
\* or a Read, so none runs between the steps of a Delete or a Reset and no
\* Read sees the segment list while Reset rebuilds it.
C11_MutatorsExclusive ==
    \A u \in Threads :
        Mutating(u) => \A t \in Threads \ {u} : thr[t].pc = "idle"

\* C12: concurrent appends are totally ordered: the successful calls
\* return distinct offsets, the offsets returned so far are a range without
\* gaps, also across a roll-over one of the calls triggers, and each offset
\* reads back the record of the call that received it.
C12_ConcurrentAppendsOrdered ==
    /\ \A i, j \in 1..Len(hist) : i # j => hist[i].off # hist[j].off
    /\ {hist[i].off : i \in 1..Len(hist)} = 0..(Len(hist) - 1)
    /\ \A i \in 1..Len(hist) : ReadsBack(CurL, hist[i].off, hist[i].value)

\* both goroutines have appended, one of the appends rolled the log over,
\* and one goroutine is inside an append while the other waits to read
C12_Witness ==
    /\ \E i, j \in 1..Len(hist) : hist[i].by = 1 /\ hist[j].by = 2
    /\ Len(segmentList) >= 2
    /\ Len(hist) >= 2
    /\ \E t \in Threads : thr[t].pc = "index" /\ mutex.writer = t

\* C13: a Read(k) that began after the Append that returned k completed
\* succeeds with that record, and a record a Read returns is one whose
\* store bytes and index entry an append has written whole.
C13_ReadVisibility ==
    /\ \A t \in Threads :
        thr[t].pc = "read"
            => \A i \in 1..thr[t].began :
                hist[i].off = thr[t].arg
                    => ReadsBack(CurL, thr[t].arg, hist[i].value)
    /\ (ret.op = "Read" /\ ret.err = "nil")
            => /\ ret.rec.Offset = ret.arg
               /\ \/ \E i \in 1..Len(hist) :
                        hist[i].off = ret.arg /\ hist[i].value = ret.rec.Value
                  \/ \E t \in Threads :
                        /\ thr[t].op = "Append" /\ thr[t].pc = "roll"
                        /\ thr[t].cur = ret.arg /\ thr[t].arg = ret.rec.Value

\* a goroutine holds the read lock for an offset the other goroutine
\* appended before, while that goroutine waits to append again
C13_Witness ==
    /\ thr[1].pc = "read" /\ 1 \in mutex.readers
    /\ thr[1].began >= 2
    /\ \E i \in 1..thr[1].began : hist[i].off = thr[1].arg /\ hist[i].by = 2
    /\ thr[2].pc = "idle"
    /\ ret.op = "Append" /\ ret.err = "nil"

\* the bytes written by the appends h: the sum of their bytesWritten
RECURSIVE SumWritten(_)
SumWritten(h) == IF h = << >> THEN 0 ELSE Head(h).n + SumWritten(Tail(h))

\* C14: for every successful Store.Append(p) on a store opened over an
\* empty file, bytesWritten is len(p) + 8, the position is the logical size
\* before the call, the size after the call is the size before plus
\* bytesWritten, and the position is the sum of len + 8 over the earlier
\* appends.
C14_StoreAppendAccounting ==
    [][ (ret'.op = "Append" /\ calls' = calls + 1 /\ ret'.err = "nil"
            /\ heap[1].atOpen = 0)
        => /\ ret'.rec.n = Len(ret'.arg) + 8
           /\ ret'.off = heap[1].store.size
           /\ heap'[1].store.size = heap[1].store.size + ret'.rec.n
           /\ ret'.off = SumWritten(hist)
           /\ \A i \in 1..Len(hist) : hist[i].n = Len(hist[i].value) + 8
      ]_vars

\* the third append, of the empty payload, wrote 8 bytes at position 19
C14_Witness ==
    /\ ret.op = "Append" /\ ret.err = "nil"
    /\ heap[1].atOpen = 0
    /\ Len(hist) = 3
    /\ ret.arg = << >> /\ ret.rec.n = 8
    /\ ret.off = 19 /\ heap[1].store.size = 27

\* C15: every position returned by a successful Store.Append(p) reads back
\* exactly p through the same store, the empty payload included, also after
\* later appends.
C15_StoreReadBack ==
    heap[1].store.open
        => \A i \in 1..Len(hist) :
            StoreRead(heap[1].store, StoreFile, hist[i].off)
                = [err |-> "nil", data |-> hist[i].value]

\* C16: the logical size of a store at open is the file length, and a
\* position returned by Store.Append points at the length prefix of the
\* entry the call wrote, also over an existing non-empty file.
C16_PositionAtPrefix ==
    /\ ret.op = "NewStore" => heap[1].store.size = Len(StoreFile)
    /\ (ret.op = "Append" /\ ret.err = "nil")
        => /\ ret.off + wordLength + Len(ret.arg) = Len(StoreFile)
           /\ SubBytes(StoreFile, ret.off, ret.off + wordLength) = PutUint64(Len(ret.arg))

\* position pos, or the entry its length prefix announces, ends past the
\* end of the file
PastFile(pos) ==
    \/ pos + wordLength > Len(StoreFile)
    \/ PastMaxAlloc(SubBytes(StoreFile, pos, pos + wordLength))
    \/ pos + wordLength + Uint64(SubBytes(StoreFile, pos, pos + wordLength)) > Len(StoreFile)

\* C17: Store.Read(position) never panics, and fails with an error and no
\* data whenever position + 8, or position + 8 + N for the length N stored
\* at position, exceeds the file size.
C17_StoreReadBounds ==
    (ret.op = "Read" /\ heap[1].store.open)
        => /\ ret.err # "panic"
           /\ PastFile(ret.arg) => (ret.err \in {"bounds", "EOF"} /\ ret.rec = << >>)

\* C18: a Store.Append that returns an error leaves the logical size of
\* the store as it was before the call.
C18_FailedAppendKeepsSize ==
    [][ (ret'.op = "Append" /\ calls' = calls + 1 /\ ret'.err \notin {"nil", "panic"})
        => heap'[1].store.size = heap[1].store.size
      ]_vars

\* C19: after Store.Close has returned, Append, Read and a second Close
\* return an error: none succeeds and none panics.
C19_ClosedStoreFails ==
    [][ (~heap[1].store.open /\ ret' # ret /\ ret'.op \in {"Append", "Read", "Close"})
        => ret'.err \notin {"nil", "panic"}
      ]_vars

\* C20: after N >= 1 successful writes Read(-1) returns the last written
\* pair, Read(i) for 0 <= i < N the (i+1)-th, and Read(i) for every i >= N
\* fails; with N = 0 every Read fails and returns no entry.
C20_IndexRead ==
    ret.op = "Read"
        => IF Len(hist) = 0 \/ ret.arg >= Len(hist)
             THEN ret.err = "EOF" /\ ret.off = 0 /\ ret.rec = 0
           ELSE IF ret.arg = -1
             THEN ret.err = "nil"
                    /\ [off |-> ret.off, pos |-> ret.rec] = hist[Len(hist)]
           ELSE IF ret.arg >= 0
             THEN ret.err = "nil"
                    /\ [off |-> ret.off, pos |-> ret.rec] = hist[ret.arg + 1]
           ELSE TRUE

\* C21: on a non-empty index (one that received its writes since it was
\* opened) Read(i) returns the last written entry for every negative i,
\* not only for i = -1.
C21_NegativeReadsLast ==
    (ret.op = "Read" /\ ret.arg < 0 /\ hist # << >> /\ admin = 0)
        => /\ ret.err = "nil"
           /\ [off |-> ret.off, pos |-> ret.rec] = hist[Len(hist)]

\* C22: Index.Write fails with the full error exactly when the populated
\* size plus 12 exceeds the mapped capacity; a failed write leaves the
\* populated size and the mapping unchanged; a successful write advances the
\* populated size by 12 and stores the pair at bytes [Size, Size+12),
\* leaving every other byte as it was.
C22_IndexWriteFull ==
    [][ calls' = calls + 1 =>
          \E ix \in {heap[1].index}, nx \in {heap'[1].index}, e \in {ret'.arg} :
            /\ (ret'.err = "EOF") = (ix.Size + entryLength > Len(ix.MemoryMap))
            /\ ret'.err \in {"EOF", "nil"}
            /\ ret'.err = "EOF" => nx = ix
            /\ ret'.err = "nil" =>
                 /\ nx.Size = ix.Size + entryLength
                 /\ Len(nx.MemoryMap) = Len(ix.MemoryMap)
                 /\ SubBytes(nx.MemoryMap, ix.Size, ix.Size + entryLength)
                        = PutUint32(e.off) \o PutUint64(e.pos)
                 /\ \A i \in 1..Len(ix.MemoryMap) :
                        (i <= ix.Size \/ i > ix.Size + entryLength)
                            => nx.MemoryMap[i] = ix.MemoryMap[i] ]_vars

\* three entries fill a mapping of 36 bytes and the fourth write is refused
C22_Witness ==
    /\ ret.op = "Write" /\ ret.err = "EOF"
    /\ Len(hist) = 3
    /\ heap[1].index.Size = Len(heap[1].index.MemoryMap)

\* the bytes of the entries h as Index.Write encodes them, in write order
RECURSIVE EntryBytes(_)
EntryBytes(h) ==
    IF h = << >> THEN << >>
    ELSE PutUint32(Head(h).off) \o PutUint64(Head(h).pos) \o EntryBytes(Tail(h))

\* C23: after an index that received N successful writes is closed, its
\* file is exactly the N written 12-byte entries in write order, with no
\* padding; the index reopened over that file has populated size 12*N and
\* its Read(i) returns the entries written before the close.
C23_IndexFileAtRest ==
    /\ (ret.op = "Close" /\ ret.err = "nil" /\ admin = 1)
         => IndexFile = EntryBytes(hist)
    /\ (ret.op = "NewIndex" /\ admin = 2)
         => heap[1].index.Size = entryLength * Len(hist)
    /\ (ret.op = "Read" /\ admin = 2 /\ heap[1].index.open
            /\ ret.arg >= 0 /\ ret.arg < Len(hist))
         => /\ ret.err = "nil"
            /\ [off |-> ret.off, pos |-> ret.rec] = hist[ret.arg + 1]

\* the bytes the store holds for the record Segment.Append would write
\* next: the length prefix and the marshalled record
NextEntryLength(s, v) ==
    wordLength + Len(Marshal([Value |-> v, Offset |-> s.nextOffset]))

\* the next Append of v would take the store or the index past its cap
WouldExceed(s, v, cfg) ==
    \/ s.store.size + NextEntryLength(s, v) > cfg.MaxStoreBytes
    \/ s.index.Size + entryLength > cfg.MaxIndexBytes

\* C24: Segment.Append (on a segment not yet closed) fails with the full
\* error whenever the store or the index would exceed its cap, and every
\* failed Append leaves nextOffset unchanged; with an index cap of exactly
\* three entries the first three appends return baseOffset + 0, + 1, + 2 and
\* the fourth fails.
C24_SegmentAppendFull ==
    [][ (calls' = calls + 1 /\ admin = 0) =>
          \E s \in {heap[1]} :
            /\ WouldExceed(s, ret'.arg, config) => ret'.err = "EOF"
            /\ ret'.err # "nil" => heap'[1].nextOffset = s.nextOffset
            /\ (config.MaxIndexBytes = 3 * entryLength /\ config.MaxStoreBytes = 1000)
                 => IF calls < 3
                      THEN ret'.err = "nil" /\ ret'.off = s.baseOffset + calls
                      ELSE ret'.err = "EOF" ]_vars

\* C25: in every reachable state of a segment (not yet closed) and for all
\* caps, also those that are no multiple of the entry sizes, IsFull() is true
\* if and only if the next Segment.Append fails with the full error.
C25_IsFullIffAppendFails ==
    [][ (calls' = calls + 1 /\ admin = 0)
          => (IsFull(heap[1], config) <=> ret'.err = "EOF") ]_vars

\* C26: Segment.Read(offset) (on a segment not yet closed) fails with the
\* out-of-range error and returns no record for every offset < baseOffset,
\* baseOffset - 1 included, and for every offset >= nextOffset; it returns
\* a record only for baseOffset <= offset < nextOffset.
C26_SegmentReadWindow ==
    (ret.op = "Read" /\ admin = 0) =>
        /\ ~InWindow(heap[1], ret.arg) => (ret.err = "EOF" /\ ret.rec = NoRecord)
        /\ ret.err = "nil" => InWindow(heap[1], ret.arg)

\* the base offsets that have a store or an index file among names
FileBases(names) ==
    {n[1] : n \in {m \in names : m[1] >= 0 /\ m[2] \in {"store", "index"}}}

\* the base offsets of the segments of the list, in list order
ListBases == [i \in 1..Len(segmentList) |-> heap[segmentList[i]].baseOffset]

\* C27: a Log opened over a directory holding any set of files named
\* <base>.store and <base>.index, also a base with only one of its two
\* files and files whose stem is no base-10 integer, has exactly one
\* segment for every base offset that has a file, in ascending base order,
\* and none for any other base.
C27_SegmentDiscovery ==
    (ret.op = "NewLog" /\ ret.err = "nil" /\ FileBases(ret.arg) # {})
        => /\ {ListBases[i] : i \in 1..Len(segmentList)} = FileBases(ret.arg)
           /\ \A i, j \in 1..Len(segmentList) : i < j => ListBases[i] < ListBases[j]

\* C28: after NewLog returns nil the active segment is the segment with the
\* highest base offset and is the last element of the segment list; when
\* the directory was empty the list is exactly one segment with base offset
\* 0 and nextOffset 0.
C28_ActiveIsTail ==
    (ret.op = "NewLog" /\ ret.err = "nil") =>
        /\ Len(segmentList) >= 1
        /\ activeSegment = segmentList[Len(segmentList)]
        /\ \A i \in 1..Len(segmentList) :
              heap[segmentList[i]].baseOffset <= heap[activeSegment].baseOffset
        /\ ret.arg = {} =>
              /\ Len(segmentList) = 1
              /\ heap[segmentList[1]].baseOffset = 0
              /\ heap[segmentList[1]].nextOffset = 0

\* a log opened again over the files of the two segments that appends left
C28_Witness ==
    /\ ret.op = "NewLog" /\ ret.err = "nil"
    /\ calls > 0
    /\ Len(segmentList) >= 2
    /\ heap[activeSegment].baseOffset > 0

\* the payloads of a byte stream read as entries of an 8-byte big-endian
\* length followed by that many bytes; <<-1>> marks bytes that are no
\* whole entry
RECURSIVE Frames(_)
Frames(b) ==
    IF b = << >> THEN << >>
    ELSE IF Len(b) < wordLength THEN << <<-1>> >>
    ELSE Only({ IF Len(b) < wordLength + n THEN << <<-1>> >>
                ELSE << SubBytes(b, wordLength, wordLength + n) >>
                        \o Frames(SubBytes(b, wordLength + n, Len(b)))
                : n \in {Uint64(SubBytes(b, 0, wordLength))} })

\* C29: on a log opened over an empty directory, Reader() yields the store
\* files of all segments in ascending base-offset order, from byte 0 of the
\* lowest: a sequence of entries, each an 8-byte big-endian payload length
\* followed by the payload, in which the i-th entry holds the record that
\* was appended at the i-th offset; and two Reader() calls with no append
\* in between yield the same bytes.
C29_ReaderStream ==
    /\ [](\E fr \in {Frames(LogReader(CurL))} :
            /\ \A i \in 1..Len(segmentList) : \A j \in 1..Len(segmentList) :
                  i < j => heap[segmentList[i]].baseOffset < heap[segmentList[j]].baseOffset
            /\ Len(fr) >= Len(hist)
            /\ \A i \in 1..Len(fr) : fr[i] # <<-1>>
            /\ \A i \in 1..Len(hist) :
                  fr[i] = Marshal([Value |-> hist[i].value, Offset |-> hist[i].off]))
    /\ [][calls' = calls => LogReader(CurL)' = LogReader(CurL)]_vars

\* the stream of a log of two segments, the second one not empty
C29_Witness ==
    /\ Len(segmentList) >= 2
    /\ FileOf(disk, StoreName(heap[segmentList[2]].baseOffset)) # << >>
    /\ Len(Frames(LogReader(CurL))) = Len(hist)
    /\ ret.op = "Read"

\* the record the producer appended at offset k
Appended(k) ==
    [Value |-> hist[k + 1].value, Offset |-> k]

HasFiles(s) ==
    StoreName(s.baseOffset) \in DOMAIN disk /\ IndexName(s.baseOffset) \in DOMAIN disk

\* C31: when Log.Truncate aborts because removing a segment fails, the
\* segment list afterwards holds no segment whose files this call has
\* removed, so Log.Read routes to no removed segment.
C31_AbortedTruncateConsistent ==
    (ret.op = "Truncate" /\ ret.err # "nil")
        => \A id \in Listed : HasFiles(heap[id])

\* the positions the entries of index ix hold
IndexPositions(ix) ==
    {IndexRead(ix, i).pos : i \in 0..((ix.Size \div entryLength) - 1)}

\* C32: when Segment.Append fails at the index step after the store step
\* succeeded, nextOffset is unchanged, no index entry holds the position of
\* the orphan entry in the store file, Segment.Read of every offset
\* returns what it returned before, and Segment.Read(nextOffset), which
\* failed before the call, still fails.
C32_OrphanInvisible ==
    [][ (calls' = calls + 1 /\ ret'.err = "EOF") =>
          \E s \in {heap[1]}, n \in {heap'[1]} :
            /\ Len(FileOf(disk', StoreName(s.baseOffset)))
                  > Len(FileOf(disk, StoreName(s.baseOffset)))
            /\ n.nextOffset = s.nextOffset
            /\ n.index = s.index
            /\ Len(FileOf(disk, StoreName(s.baseOffset))) \notin IndexPositions(n.index)
            /\ \A j \in 0..MaxReadOffset :
                  SegmentRead(n, disk', s.baseOffset + j)
                      = SegmentRead(s, disk, s.baseOffset + j)
            /\ SegmentRead(s, disk, s.nextOffset).err # "nil"
                  => SegmentRead(n, disk', n.nextOffset).err # "nil" ]_vars

\* an append refused by a full index after two appends, its entry left in
\* the store file
C32_Witness ==
    /\ ret.op = "Append" /\ ret.err = "EOF"
    /\ admin = 0
    /\ Len(hist) = 2
    /\ Len(Frames(FileOf(disk, StoreName(heap[1].baseOffset)))) = 3
    /\ SegmentRead(heap[1], disk, heap[1].nextOffset).err = "EOF"

\* the positions in the bytes b, from position at on, at which the length
\* prefix of an entry starts
RECURSIVE FrameStarts(_, _)
FrameStarts(b, at) ==
    IF at + wordLength > Len(b) THEN {}
    ELSE Only({ IF at + wordLength + n > Len(b) THEN {}
                ELSE {at} \cup FrameStarts(b, at + wordLength + n)
                : n \in {Uint64(SubBytes(b, at, at + wordLength))} })

\* C33: in every reachable state of a segment, after any sequence of open,
\* append, failed append, close and reopen: baseOffset <= nextOffset,
\* nextOffset - baseOffset is the number of index entries, the i-th index
\* entry has relative offset i, and the positions in the index are strictly
\* increasing and each points at the length prefix of an entry in the store
\* file.
C33_SegmentInvariant ==
    (~panicked /\ heap[1].index.open) =>
      \E s \in {heap[1]} : \E n \in {s.index.Size \div entryLength} :
        /\ s.baseOffset <= s.nextOffset
        /\ s.nextOffset - s.baseOffset = n
        /\ \A i \in 0..(n - 1) : IndexRead(s.index, i).out = i
        /\ \A i \in 0..(n - 1) : \A j \in 0..(n - 1) :
              i < j => IndexRead(s.index, i).pos < IndexRead(s.index, j).pos
        /\ \A i \in 0..(n - 1) :
              IndexRead(s.index, i).pos
                  \in FrameStarts(FileOf(disk, StoreName(s.baseOffset)), 0)

\* C34: the record read back at an offset k that Append returned has its
\* Offset field equal to k, whatever Offset the caller's record carried.
C34_RecordCarriesOffset ==
    /\ \A i \in 1..Len(hist) :
          \E r \in {LogRead(CurL, hist[i].off)} :
            r.err = "nil" /\ r.rec.Offset = hist[i].off
    /\ (ret.op = "Read" /\ ret.err = "nil") => ret.rec.Offset = ret.arg

\* offset 1 went to a record that came with Offset 7 and was read back
C34_Witness ==
    /\ ret.op = "Read" /\ ret.err = "nil" /\ ret.arg = 1
    /\ Len(hist) >= 2
    /\ hist[2].given = 7 /\ hist[2].off = 1
    /\ ret.rec = [Value |-> hist[2].value, Offset |-> 1]

\* C35: Index.Close releases the memory mapping strictly before it closes
\* the backing file, so the file is never closed while the mapping exists,
\* and after Close no mapping of the index file remains.
C35_UnmapBeforeClose ==
    ~heap[1].index.open => ~heap[1].index.mapped

\* C36: for every configuration, also an index cap that is no multiple of
\* 12, the log never becomes unable to append: when an Append has failed
\* with the full signal of the active segment, the log has rolled a new
\* segment, so that the next Log.Append succeeds.
C36_AppendRecovers ==
    (ret.op = "Append" /\ ret.err = "EOF")
        => \A v \in Values :
             LogAppend(CurL, [Value |-> v, Offset |-> 0], config).err = "nil"

\* C37: Log.Truncate never removes the active segment: after a Truncate
\* that returned nil, whatever lowest was, the active segment is still in
\* the segment list, its files exist, and the next Log.Append succeeds
\* with the offset that follows the last one assigned.
C37_TruncateKeepsActive ==
    (ret.op = "Truncate" /\ ret.err = "nil")
        => /\ \E i \in 1..Len(segmentList) : segmentList[i] = activeSegment
           /\ HasFiles(heap[activeSegment])
           /\ \A v \in Values :
                \E r \in {LogAppend(CurL, [Value |-> v, Offset |-> 0], config)} :
                    r.err = "nil" /\ r.off = Len(hist)

\* CurL after the step
NextL ==
    [heap |-> heap', segmentList |-> segmentList',
     activeSegment |-> activeSegment', disk |-> disk', dirExists |-> dirExists']

\* C38: when Log.Append returns a non-nil error no record was added: the
\* offsets at which Log.Read succeeds are the same after the call as
\* before it, so a retry of the record cannot make a second readable copy.
C38_FailedAppendAddsNothing ==
    [][ (calls' = calls + 1 /\ ret'.op = "Append"
            /\ ret'.err \notin {"nil", "panic"}) =>
          \A k \in 0..MaxReadOffset :
              (LogRead(NextL, k).err = "nil") <=> (LogRead(CurL, k).err = "nil") ]_vars

\* C39: in every reachable state of an Index, whatever MaxIndexBytes each
\* open was given, also one smaller than the index file it found, Size is a
\* multiple of 12 and at most the length of the mapped region, so that
\* Index.Read addresses no byte outside the mapping.
C39_SizeWithinMapping ==
    /\ heap[1].index.Size % entryLength = 0
    /\ heap[1].index.Size <= Len(heap[1].index.MemoryMap)
    /\ ~(ret.op = "Read" /\ ret.err = "panic")

\* C40: Index.Read(i) depends on the full width of i: on an index of N
\* entries every Read(i) with i at or above 2^32 fails, and none returns
\* the entry at i mod 2^32.
C40_ReadFullWidth ==
    (ret.op = "Read" /\ ret.arg >= Uint32Mod)
        => /\ ret.err # "nil"
           /\ ret.off = 0 /\ ret.rec = 0

====
